---------------------------- MODULE Spec2Model ----------------------------
(***************************************************************************)
(* A model of the NeuroSync backend: the PC Executor, the SSH/RDP Session  *)
(* Manager, the encrypted /ws gateway endpoint, the tether chat proxies,   *)
(* the Beam QR verifier and the semantic memory store.                     *)
(*                                                                         *)
(* Text is modelled as a sequence of one-character strings, so that        *)
(* lower(), strip(), split(), startswith(), endswith() and `in` are        *)
(* computed on the characters as Python computes them.                     *)
(***************************************************************************)
EXTENDS Integers, Sequences, FiniteSets, TLC

VARIABLES
    execLog,          \* PC Executor: one entry per launch_app call
    allowed_hosts,    \* SessionManager.allowed_hosts
    active_ssh,       \* SessionManager.active_ssh: session_key -> SSHSession
    sessions,         \* every SSHSession object ever constructed (connect() is
                      \* called on each as it is made); conn is its _conn
    sshTask,          \* each ssh_command coroutine: its position and locals
    rdpLog,           \* the hosts launch_rdp started an RDP client process for
    CURRENT_SESSION,  \* app/main.py: the process's tether token and key
    gwPhase,          \* app/main.py: "import" before lifespan startup, then "serving"
    ws,               \* app/main.py /ws: each connection's handler
    tetherLog,        \* one entry per POST /api/tether/chat request
    TETHER_TOKEN,     \* backend/main.py: the process's tether token
    beamLog,          \* one entry per POST /beam/verify request
    now,              \* int(time.time())
    store,            \* memory database: the committed rows
    savers,           \* each save_interaction call: position and open transaction
    night,            \* run_consolidation: position and locals
    recall,           \* recall_memories: position and locals
    returned,         \* what the save_interaction or recall_memories call that
                      \* ended last returned or raised
    settings,         \* app/core config: the API keys the router reads
    router,           \* core/router.py: the Router singleton's fields
    run,              \* one Router.execute generator: position and chunks yielded
    bridge,           \* host-bridge.py: the NeuroBeamBridge object's fields
    clients,          \* host-bridge.py: each connection's handle_client coroutine
    media,            \* media_assets rows and the files of the media directory
    cleanup,          \* run_file_cleanup: position, locals and open transaction
    cortex,           \* CortexWorker.run_loop: position, locals and _shutdown
    nightly,          \* run_all_jobs: position and the jobs run so far
    upload,           \* one POST /v1/media/upload request
    brain,            \* one AgentBrain.generate_response generator
    scored,           \* core/scorer.py: one ComplexityScorer.score call
    prompted,         \* core/prompts.py: one get_system_prompt call
    chat              \* app/main.py: one POST /chat request

execVars == <<execLog>>
sessVars == <<allowed_hosts, active_ssh, sessions, sshTask, rdpLog>>
gwVars == <<CURRENT_SESSION, gwPhase>>
wsVars == <<ws>>
tetherVars == <<tetherLog, TETHER_TOKEN>>
beamVars == <<beamLog, now>>
memVars == <<store, savers, night, recall, returned>>
routerVars == <<settings, router, run>>
bridgeVars == <<bridge, clients>>
apiVars == <<scored, prompted, chat>>
jobVars == <<media, cleanup, cortex, nightly, upload, brain, apiVars>>
coreVars == <<execVars, sessVars, gwVars, wsVars, tetherVars, beamVars,
              routerVars, bridgeVars, apiVars>>
nonApiVars == <<execVars, sessVars, gwVars, wsVars, tetherVars, beamVars,
                memVars, routerVars, bridgeVars, media, cleanup, cortex,
                nightly, upload, brain>>
vars == <<execVars, sessVars, gwVars, wsVars, tetherVars, beamVars, memVars,
          routerVars, bridgeVars, jobVars>>

\* What each component leaves alone.
execOthers == <<sessVars, gwVars, wsVars, tetherVars, beamVars, memVars,
    routerVars, bridgeVars, jobVars>>
sessOthers == <<execVars, gwVars, wsVars, tetherVars, beamVars, memVars,
    routerVars, bridgeVars, jobVars>>
wsOthers == <<execVars, sessVars, tetherVars, beamVars, memVars,
    routerVars, bridgeVars, jobVars>>
tetherOthers == <<execVars, sessVars, wsVars, beamVars, memVars,
    routerVars, bridgeVars, jobVars>>
beamOthers == <<execVars, sessVars, gwVars, wsVars, tetherVars, memVars,
    routerVars, bridgeVars, jobVars>>
memOthers == <<execVars, sessVars, gwVars, wsVars, tetherVars, beamVars,
    routerVars, bridgeVars, jobVars>>
routerOthers == <<execVars, sessVars, gwVars, wsVars, tetherVars, beamVars,
    memVars, bridgeVars, jobVars>>
bridgeOthers == <<execVars, sessVars, gwVars, wsVars, tetherVars, beamVars,
    memVars, routerVars, jobVars>>

(***************************************************************************)
(* Text helpers (Python str methods).                                      *)
(***************************************************************************)
Range(f) == {f[x] : x \in DOMAIN f}

Whitespace == {" ", "\t", "\n"}

UpperToLower ==
    "A" :> "a" @@ "B" :> "b" @@ "C" :> "c" @@ "D" :> "d" @@ "E" :> "e" @@
    "F" :> "f" @@ "G" :> "g" @@ "H" :> "h" @@ "I" :> "i" @@ "J" :> "j" @@
    "K" :> "k" @@ "L" :> "l" @@ "M" :> "m" @@ "N" :> "n" @@ "O" :> "o" @@
    "P" :> "p" @@ "Q" :> "q" @@ "R" :> "r" @@ "S" :> "s" @@ "T" :> "t" @@
    "U" :> "u" @@ "V" :> "v" @@ "W" :> "w" @@ "X" :> "x" @@ "Y" :> "y" @@
    "Z" :> "z"

\* str.lower()
Lower(s) ==
    [i \in 1..Len(s) |-> IF s[i] \in DOMAIN UpperToLower THEN UpperToLower[s[i]] ELSE s[i]]

\* str.strip(): leading and trailing whitespace removed
Strip(s) ==
    LET keep == {i \in 1..Len(s) : s[i] \notin Whitespace}
    IN  IF keep = {} THEN <<>>
        ELSE LET lo == CHOOSE i \in keep : \A j \in keep : i <= j
                 hi == CHOOSE i \in keep : \A j \in keep : j <= i
             IN  SubSeq(s, lo, hi)

\* str.split(): the maximal runs of non-whitespace characters, in order
RECURSIVE SplitFrom(_, _, _)
SplitFrom(s, i, cur) ==
    IF i > Len(s) THEN (IF cur = <<>> THEN <<>> ELSE <<cur>>)
    ELSE IF s[i] \in Whitespace
         THEN (IF cur = <<>> THEN <<>> ELSE <<cur>>) \o SplitFrom(s, i + 1, <<>>)
         ELSE SplitFrom(s, i + 1, Append(cur, s[i]))

Split(s) == SplitFrom(s, 1, <<>>)

\* str.startswith(p)
StartsWith(s, p) == Len(p) <= Len(s) /\ SubSeq(s, 1, Len(p)) = p

\* str.endswith(p)
EndsWith(s, p) == Len(p) <= Len(s) /\ SubSeq(s, Len(s) - Len(p) + 1, Len(s)) = p

\* p in s (substring)
Contains(s, p) ==
    \E i \in 1..(Len(s) - Len(p) + 1) : SubSeq(s, i, i + Len(p) - 1) = p

(***************************************************************************)
(* PC Executor (neurobeam/pc_executor.py).                                 *)
(***************************************************************************)
SAFE_APPS ==
    <<"n","o","t","e","p","a","d">> :> <<"n","o","t","e","p","a","d",".","e","x","e">> @@
    <<"c","a","l","c","u","l","a","t","o","r">> :> <<"c","a","l","c",".","e","x","e">> @@
    <<"e","x","p","l","o","r","e","r">> :> <<"e","x","p","l","o","r","e","r",".","e","x","e">> @@
    <<"t","e","r","m","i","n","a","l">> :> <<"w","t",".","e","x","e">> @@
    <<"p","o","w","e","r","s","h","e","l","l">> :> <<"p","o","w","e","r","s","h","e","l","l",".","e","x","e">> @@
    <<"c","m","d">> :> <<"c","m","d",".","e","x","e">> @@
    <<"b","r","o","w","s","e","r">> :> <<"s","t","a","r","t">> @@
    <<"c","h","r","o","m","e">> :> <<"c","h","r","o","m","e",".","e","x","e">> @@
    <<"f","i","r","e","f","o","x">> :> <<"f","i","r","e","f","o","x",".","e","x","e">> @@
    <<"e","d","g","e">> :> <<"m","s","e","d","g","e",".","e","x","e">> @@
    <<"v","s","c","o","d","e">> :> <<"c","o","d","e">> @@
    <<"t","a","s","k","_","m","a","n","a","g","e","r">> :> <<"t","a","s","k","m","g","r",".","e","x","e">> @@
    <<"s","e","t","t","i","n","g","s">> :> <<"m","s","-","s","e","t","t","i","n","g","s",":">> @@
    <<"p","a","i","n","t">> :> <<"m","s","p","a","i","n","t",".","e","x","e">> @@
    <<"s","n","i","p">> :> <<"S","n","i","p","p","i","n","g","T","o","o","l",".","e","x","e">>

\* The app names and args strings a caller (the model's output) may send.
AppInputs ==
    { <<" ","N","o","t","e","P","a","d"," ">>,
      <<"C","M","D">>,
      <<"b","r","o","w","s","e","r">>,
      <<"S","e","t","t","i","n","g","s">>,
      <<"n","o","t","_","a","_","r","e","a","l","_","a","p","p">>,
      <<"e","v","i","l",".","e","x","e">>,
      <<"c","a","l","c",".","e","x","e">>,
      <<>> }

ArgsInputs ==
    { <<>>,
      <<"a",".","t","x","t"," ","b",".","t","x","t">>,
      <<"f","i","l","e",":","/","/","/","C",":","/","e","v","i","l",".","e","x","e">> }

\* params: a dict over the keys "app" and "args"; None and {} are both falsy
\* and are both the empty function here.
ExecParams ==
    { <<>> }
    \cup { [app |-> a] : a \in AppInputs }
    \cup { [args |-> g] : g \in ArgsInputs }
    \cup { [app |-> a, args |-> g] : a \in AppInputs, g \in ArgsInputs }

\* What os.startfile / subprocess.Popen can do with the call.
OsOutcomes == {"ok", "FileNotFoundError", "OSError"}

NoCall == [via |-> "none", target |-> <<>>, argv |-> <<>>]

\* dict.get("args", "")
GetArgs(params) == IF "args" \in DOMAIN params THEN params.args ELSE <<>>

\* The process or URI launch_app starts for a whitelisted name (lines 149-162).
LaunchCall(exe, params) ==
    LET args == GetArgs(params) IN
    IF StartsWith(exe, <<"m","s","-","s","e","t","t","i","n","g","s",":">>)
       \/ exe = <<"s","t","a","r","t">>
    THEN [via |-> "startfile",
          target |-> IF exe # <<"s","t","a","r","t">> THEN exe ELSE args,
          argv |-> <<>>]
    ELSE [via |-> "Popen",
          target |-> exe,
          argv |-> <<exe>> \o (IF args # <<>> THEN Split(args) ELSE <<>>)]

\* launch_app(params) with the operating system answering `os`:
\* the call made (or NoCall) and the result dict returned.
launch_app(params, os) ==
    IF DOMAIN params = {} \/ "app" \notin DOMAIN params
    THEN [call |-> NoCall,
          result |-> [success |-> FALSE, error |-> "Missing 'app' parameter",
                      available_apps |-> DOMAIN SAFE_APPS, launched |-> <<>>]]
    ELSE LET app_name == Strip(Lower(params.app)) IN
         IF app_name \notin DOMAIN SAFE_APPS
         THEN [call |-> NoCall,
               result |-> [success |-> FALSE, error |-> "not in whitelist",
                           available_apps |-> DOMAIN SAFE_APPS, launched |-> <<>>]]
         ELSE LET exe == SAFE_APPS[app_name] IN
              [call |-> LaunchCall(exe, params),
               result |->
                  IF os = "ok"
                  THEN [success |-> TRUE, error |-> "", available_apps |-> {},
                        launched |-> app_name]
                  ELSE IF os = "FileNotFoundError"
                  THEN [success |-> FALSE, error |-> "Executable not found",
                        available_apps |-> {}, launched |-> <<>>]
                  ELSE [success |-> FALSE, error |-> "exception",
                        available_apps |-> {}, launched |-> <<>>]]

MaxLaunches == 2

\* The state of the components a specification does not exercise.
SessIdle ==
    /\ allowed_hosts = {}
    /\ active_ssh = <<>>
    /\ sessions = <<>>
    /\ sshTask = <<>>
    /\ rdpLog = {}

GwIdle ==
    /\ CURRENT_SESSION = <<>>
    /\ gwPhase = "off"
    /\ ws = <<>>

TetherIdle ==
    /\ tetherLog = <<>>
    /\ TETHER_TOKEN = <<>>

BeamIdle ==
    /\ beamLog = <<>>
    /\ now = 0

MemIdle ==
    /\ store = <<>>
    /\ savers = <<>>
    /\ night = <<>>
    /\ recall = <<>>
    /\ returned = <<>>

RouterIdle ==
    /\ settings = <<>>
    /\ router = <<>>
    /\ run = <<>>

BridgeIdle ==
    /\ bridge = <<>>
    /\ clients = <<>>

ApiIdle ==
    /\ scored = <<>>
    /\ prompted = <<>>
    /\ chat = <<>>

JobsIdle ==
    /\ media = <<>>
    /\ cleanup = <<>>
    /\ cortex = <<>>
    /\ nightly = <<>>
    /\ upload = <<>>
    /\ brain = <<>>
    /\ ApiIdle

InitExec ==
    /\ JobsIdle
    /\ execLog = <<>>
    /\ RouterIdle
    /\ BridgeIdle
    /\ SessIdle
    /\ GwIdle
    /\ TetherIdle
    /\ BeamIdle
    /\ MemIdle

LaunchApp ==
    /\ Len(execLog) < MaxLaunches
    /\ \E params \in ExecParams, os \in OsOutcomes :
         LET r == launch_app(params, os) IN
         execLog' = Append(execLog, [params |-> params, os |-> os,
                                     call |-> r.call, result |-> r.result])
    /\ UNCHANGED execOthers

NextExec == LaunchApp

SpecExec == InitExec /\ [][NextExec]_vars

(***************************************************************************)
(* C1: launch_app starts only the whitelist value selected by the          *)
(* lower-cased, trimmed requested name; a name outside the whitelist is    *)
(* rejected with success=false and the list of valid names and starts      *)
(* nothing; no caller-supplied string is the executable or URI started.    *)
(***************************************************************************)
C1_OnlyWhitelistTargets ==
    \A i \in 1..Len(execLog) :
        LET e == execLog[i]
            named == "app" \in DOMAIN e.params
            name == IF named THEN Strip(Lower(e.params.app)) ELSE <<>>
        IN  /\ (~named \/ name \notin DOMAIN SAFE_APPS) =>
                  /\ e.call = NoCall
                  /\ e.result.success = FALSE
                  /\ e.result.available_apps = DOMAIN SAFE_APPS
            /\ e.call # NoCall =>
                  /\ name \in DOMAIN SAFE_APPS
                  /\ e.call.target = SAFE_APPS[name]

(***************************************************************************)
(* Session Manager (neurobeam/session_manager.py).                         *)
(***************************************************************************)
\* str.split(","): the pieces between the separators, empty ones included
RECURSIVE SplitOnFrom(_, _, _, _)
SplitOnFrom(s, sep, i, cur) ==
    IF i > Len(s) THEN <<cur>>
    ELSE IF s[i] = sep THEN <<cur>> \o SplitOnFrom(s, sep, i + 1, <<>>)
         ELSE SplitOnFrom(s, sep, i + 1, Append(cur, s[i]))

SplitOn(s, sep) == SplitOnFrom(s, sep, 1, <<>>)

\* The values of NEUROSYNC_ALLOWED_HOSTS a deployment may set
\* ("" is the default; "1.2.3.4, evil.com,").
AllowedHostsEnvs ==
    { <<>>,
      <<"1",".","2",".","3",".","4",","," ","e","v","i","l",".","c","o","m",",">> }

_load_allowed_hosts(env) ==
    IF env # <<>>
    THEN LET parts == SplitOn(env, ",")
         IN  {Strip(parts[i]) : i \in {j \in 1..Len(parts) : Strip(parts[j]) # <<>>}}
    ELSE {}

_is_lan_host(host) ==
    \/ StartsWith(host, <<"1","9","2",".","1","6","8",".">>)
    \/ StartsWith(host, <<"1","0",".">>)
    \/ StartsWith(host, <<"1","7","2",".">>)
    \/ StartsWith(host, <<"1","0","0",".">>)
    \/ host = <<"l","o","c","a","l","h","o","s","t">>
    \/ host = <<"1","2","7",".","0",".","0",".","1">>

\* A plausible slip: an empty allowlist read as "allow everything".
IsAllowedEmptyMeansAll(host) ==
    IF allowed_hosts = {} THEN TRUE ELSE host \in allowed_hosts

_is_allowed(host) ==
    IF allowed_hosts # {} /\ host \in allowed_hosts THEN TRUE
    ELSE _is_lan_host(host)

\* The hosts, commands and user names a caller (the model's output) may send.
None == <<"None">>

HostInputs ==
    { None,
      <<>>,
      <<"1","9","2",".","1","6","8",".","1",".","5">>,
      <<"e","v","i","l",".","c","o","m">>,
      <<"1","9","2",".","1","6","9",".","1",".","5">> }

CommandInputs == { None, <<"u","p","t","i","m","e">> }

UsernameInputs == { None, <<"r","o","o","t">> }

\* os.getenv("USER", "admin")
DefaultUser == <<"a","d","m","i","n">>

\* str(22): the default port as the f-string formats it
DefaultPort == <<"2","2">>

\* Every host with a command, under each user name; one call without a command.
SshParams ==
    [host : HostInputs, command : CommandInputs \ {None}, username : UsernameInputs]
    \cup { [host |-> <<"1","9","2",".","1","6","8",".","1",".","5">>,
            command |-> None, username |-> None] }

RdpParams == [host : HostInputs, username : UsernameInputs]

Tasks == {1, 2}

MaxSessions == 2

\* A coroutine's locals: its position, the SSHSession it holds (0: none) and,
\* once it has returned, its result; host is the host a rejected call named
\* (an accepted call's host is its session's).
IdleTask == [pc |-> "idle", host |-> None, sid |-> 0, result |-> "none"]

\* f"{username}@{host}:{port}"
session_key(username, host, port) == username \o <<"@">> \o host \o <<":">> \o port

KeyOf(s) == session_key(s.username, s.host, s.port)

UserOf(params) == IF params.username = None THEN DefaultUser ELSE params.username

InitSess ==
    /\ JobsIdle
    /\ execLog = <<>>
    /\ RouterIdle
    /\ BridgeIdle
    /\ \E env \in AllowedHostsEnvs : allowed_hosts = _load_allowed_hosts(env)
    /\ active_ssh = <<>>
    /\ sessions = <<>>
    /\ sshTask = [t \in Tasks |-> IdleTask]
    /\ rdpLog = {}
    /\ GwIdle
    /\ TetherIdle
    /\ BeamIdle
    /\ MemIdle

\* ssh_command up to its first await (lines 171-190): the parameter and
\* allowlist checks, the cache lookup and, on a miss, the new SSHSession whose
\* connect() is awaited.
SshBegin(t) ==
    /\ sshTask[t].pc = "idle"
    /\ \E params \in SshParams :
         LET host == params.host
             key == session_key(UserOf(params), host, DefaultPort)
         IN
         IF host = None \/ host = <<>> \/ params.command = None
         THEN /\ sshTask' = [sshTask EXCEPT ![t] =
                    [IdleTask EXCEPT !.result = "missing"]]
              /\ UNCHANGED <<sessions, active_ssh>>
         ELSE IF ~_is_allowed(host)
         THEN /\ sshTask' = [sshTask EXCEPT ![t] =
                    [IdleTask EXCEPT !.host = host, !.result = "host_not_allowed"]]
              /\ UNCHANGED <<sessions, active_ssh>>
         ELSE IF key \in DOMAIN active_ssh
         THEN /\ sshTask' = [sshTask EXCEPT ![t] =
                    [pc |-> "run", host |-> None, sid |-> active_ssh[key],
                     result |-> "none"]]
              /\ UNCHANGED <<sessions, active_ssh>>
         ELSE /\ Len(sessions) < MaxSessions
              /\ sessions' = Append(sessions,
                    [host |-> host, username |-> UserOf(params),
                     port |-> DefaultPort, conn |-> "none"])
              /\ sshTask' = [sshTask EXCEPT ![t] =
                    [pc |-> "connect", host |-> None, sid |-> Len(sessions) + 1,
                     result |-> "none"]]
              /\ UNCHANGED active_ssh
    /\ UNCHANGED <<allowed_hosts, rdpLog, sessOthers>>

\* session.connect() returns (lines 190-193): a failure is returned to the
\* caller, a success is cached under the key.
SshConnected(t) ==
    /\ sshTask[t].pc = "connect"
    /\ \E ok \in BOOLEAN :
         IF ok
         THEN /\ sessions' = [sessions EXCEPT ![sshTask[t].sid].conn = "open"]
              /\ active_ssh' = (KeyOf(sessions[sshTask[t].sid]) :> sshTask[t].sid)
                                 @@ active_ssh
              /\ sshTask' = [sshTask EXCEPT ![t].pc = "run"]
         ELSE /\ UNCHANGED sessions
              /\ sshTask' = [sshTask EXCEPT ![t].pc = "idle",
                                            ![t].result = "connect_failed"]
              /\ UNCHANGED active_ssh
    /\ UNCHANGED <<allowed_hosts, rdpLog, sessOthers>>

\* session.run_command() returns (lines 195-197, 53-72): the command's
\* result, or "Not connected" when the session's connection is gone.
SshRan(t) ==
    /\ sshTask[t].pc = "run"
    /\ sshTask' = [sshTask EXCEPT ![t].pc = "idle", ![t].result =
            IF sessions[sshTask[t].sid].conn # "open" THEN "not_connected"
            ELSE "ran"]
    /\ UNCHANGED <<allowed_hosts, active_ssh, sessions, rdpLog, sessOthers>>

\* rdp_launch (lines 199-212) and launch_rdp (lines 83-126): the hosts an
\* RDP client process was started for.
RdpLaunch ==
    /\ \E params \in RdpParams :
         IF params.host = None \/ params.host = <<>> \/ ~_is_allowed(params.host)
         THEN UNCHANGED rdpLog
         ELSE rdpLog' = rdpLog \cup {params.host}
    /\ UNCHANGED <<allowed_hosts, active_ssh, sessions, sshTask, sessOthers>>

\* A plausible slip: the cache is cleared without closing what it held.
CleanupCacheOnly ==
    /\ active_ssh # <<>>
    /\ active_ssh' = <<>>
    /\ UNCHANGED <<allowed_hosts, sessions, sshTask, rdpLog, sessOthers>>

\* cleanup (lines 230-235): every cached session is disconnected, then the
\* cache is cleared.
Cleanup ==
    /\ active_ssh # <<>>
    /\ sessions' = [i \in DOMAIN sessions |->
                      IF i \in Range(active_ssh) /\ sessions[i].conn = "open"
                      THEN [sessions[i] EXCEPT !.conn = "none"] ELSE sessions[i]]
    /\ active_ssh' = <<>>
    /\ UNCHANGED <<allowed_hosts, sshTask, rdpLog, sessOthers>>

NextSess ==
    \/ \E t \in Tasks : SshBegin(t)
    \/ \E t \in Tasks : SshConnected(t)
    \/ \E t \in Tasks : SshRan(t)
    \/ RdpLaunch
    \/ Cleanup

SpecSess == InitSess /\ [][NextSess]_vars

(***************************************************************************)
(* C2: a host that is neither in the configured allowlist nor matching a   *)
(* LAN prefix / localhost is rejected before any connection attempt: no    *)
(* SSHSession exists for it (so connect() was never called on one), the    *)
(* session cache holds no entry for it, no RDP client was started for it,  *)
(* and the ssh_command that named it returned the host error.              *)
(***************************************************************************)
LanPrefixes ==
    { <<"1","9","2",".","1","6","8",".">>, <<"1","0",".">>,
      <<"1","7","2",".">>, <<"1","0","0",".">> }

HostPermitted(h) ==
    \/ h \in allowed_hosts
    \/ \E p \in LanPrefixes : Len(h) >= Len(p) /\ \A i \in 1..Len(p) : h[i] = p[i]
    \/ h \in { <<"l","o","c","a","l","h","o","s","t">>,
               <<"1","2","7",".","0",".","0",".","1">> }

C2_DisallowedHostNeverConnected ==
    /\ \A i \in DOMAIN sessions : HostPermitted(sessions[i].host)
    /\ \A k \in DOMAIN active_ssh : HostPermitted(sessions[active_ssh[k]].host)
    /\ \A h \in rdpLog : HostPermitted(h)

C2_Witness ==
    /\ \E t \in DOMAIN sshTask :
          /\ sshTask[t].result = "host_not_allowed"
          /\ ~HostPermitted(sshTask[t].host)
    /\ \E i \in DOMAIN sessions : sessions[i].conn = "open"
    /\ rdpLog # {}

(***************************************************************************)
(* Gateway (app/main.py): the tether session and the encrypted /ws         *)
(* endpoint.                                                               *)
(*                                                                         *)
(* Bytes are sequences of blocks.  AES-GCM is symbolic: a ciphertext block *)
(* names the key, nonce and plaintext that made it, and the tag block      *)
(* authenticates the ciphertext under the key and nonce.                   *)
(***************************************************************************)
\* os.urandom(32): the values the session key may take
KeyMaterial == { <<1, 2>>, <<2, 1>> }

\* os.urandom(12): the values a nonce may take
Nonces == { <<7>>, <<8>> }

\* base64.urlsafe_b64encode(...).decode(): the key's bytes as text,
\* injective and in another alphabet
B64Alphabet == (1 :> "Q") @@ (2 :> "g")

urlsafe_b64encode(bytes) == [i \in 1..Len(bytes) |-> B64Alphabet[bytes[i]]]

\* base64.b64encode / b64decode of an envelope field: text that decodes back
\* to the bytes; text that is no Base64 does not decode
b64encode(bytes) == [b64 |-> TRUE, bytes |-> bytes]

NotBase64 == [b64 |-> FALSE, bytes |-> <<>>]

\* AESGCM.encrypt(nonce, data, None): ciphertext with the tag appended
CtBlock(key, nonce, data) == <<"ct", key, nonce, data>>

TagBlock(key, nonce, ct) == <<"tag", key, nonce, ct>>

AesEncrypt(key, nonce, data) ==
    <<CtBlock(key, nonce, data), TagBlock(key, nonce, CtBlock(key, nonce, data))>>

\* A plausible slip: the tag is not verified.
DecryptOkNoTagCheck(key, nonce, data) ==
    /\ Len(nonce) > 0
    /\ Len(data) >= 1
    /\ data[1][1] = "ct" /\ data[1][2] = key /\ data[1][3] = nonce

\* AESGCM.decrypt(nonce, data, None): the plaintext, or no plaintext when the
\* nonce is empty or the trailing tag does not authenticate the rest
DecryptOk(key, nonce, data) ==
    /\ Len(nonce) > 0
    /\ Len(data) = 2
    /\ data[2] = TagBlock(key, nonce, data[1])
    /\ data[1][1] = "ct" /\ data[1][2] = key /\ data[1][3] = nonce

AesDecrypt(key, nonce, data) == data[1][4]

\* The {c, n, t} envelope the server sends (lines 380-388, 453-460):
\* the tag is the last 16 bytes, the ciphertext the rest.
Envelope(key, nonce, msg) ==
    LET full == AesEncrypt(key, nonce, [json |-> TRUE, v |-> msg])
    IN  [kind |-> "dict", type |-> "", sid |-> None,
         c |-> b64encode(<<full[1]>>), n |-> b64encode(nonce),
         t |-> b64encode(<<full[2]>>)]

\* JSON values: objects carry kind "dict"; a key an object lacks is Absent.
Absent == [b64 |-> TRUE, bytes |-> <<>>]

HandshakeOk == [kind |-> "dict", type |-> "handshake_ok"]

RequestMsgs ==
    { [kind |-> "dict", type |-> "text", payload |-> "hello", streamId |-> "s1"],
      [kind |-> "dict", type |-> "image", payload |-> "img", streamId |-> "s2"] }

JsonList == [kind |-> "list"]

\* What json.loads(plaintext) yields for the plaintexts a client may encrypt
Plaintexts ==
    { [json |-> TRUE, v |-> m] : m \in RequestMsgs }
    \cup { [json |-> TRUE, v |-> JsonList], [json |-> FALSE, v |-> JsonList] }

OtherKey(key) == CHOOSE k \in KeyMaterial : k # key

\* The text frames a client may send, as json.loads reads them.
HandshakeFrames(key) ==
    { [json |-> TRUE,
       v |-> [kind |-> "dict", type |-> "handshake", sid |-> s,
              c |-> Absent, n |-> Absent, t |-> Absent]] :
      s \in { urlsafe_b64encode(key), urlsafe_b64encode(OtherKey(key)), None } }

ClientEnvelope(key, nonce, pt) ==
    LET full == AesEncrypt(key, nonce, pt)
    IN  [kind |-> "dict", type |-> "", sid |-> None,
         c |-> b64encode(<<full[1]>>), n |-> b64encode(nonce),
         t |-> b64encode(<<full[2]>>)]

EnvelopeFrames(key) ==
    LET good(pt) == ClientEnvelope(key, <<7>>, pt)
        req == [json |-> TRUE, v |-> CHOOSE m \in RequestMsgs : m.type = "text"]
    IN
    \* encrypted under the session key
    { [json |-> TRUE, v |-> good(pt)] : pt \in Plaintexts }
    \cup
    { \* encrypted under another key
      [json |-> TRUE, v |-> ClientEnvelope(OtherKey(key), <<7>>, req)],
      \* the tag of another message
      [json |-> TRUE, v |-> [good(req) EXCEPT
          !.t = ClientEnvelope(key, <<8>>, req).t]],
      \* another nonce than the one encrypted with
      [json |-> TRUE, v |-> [good(req) EXCEPT !.n = b64encode(<<8>>)]],
      \* a field that is no Base64
      [json |-> TRUE, v |-> [good(req) EXCEPT !.c = NotBase64]],
      \* a plaintext request: no c, n, t at all
      [json |-> TRUE, v |-> [kind |-> "dict", type |-> "text", sid |-> None,
                             c |-> Absent, n |-> Absent, t |-> Absent]] }

OtherFrames ==
    { [json |-> FALSE, v |-> JsonList],     \* text that is no JSON
      [json |-> TRUE, v |-> JsonList] }      \* JSON that is no object

ClientFrames(key) == HandshakeFrames(key) \cup EnvelopeFrames(key) \cup OtherFrames

\* ai_router.route + ai_router.execute as the endpoint sees them: the chunks
\* yielded, and whether the call then raises.
Chunk(content, done) == [content |-> content, done |-> done]

RouterStreams ==
    { [chunks |-> <<Chunk("tok", FALSE), Chunk("", TRUE)>>, raises |-> FALSE],
      [chunks |-> <<>>, raises |-> TRUE] }

Conns == {1}

MaxFrames == 3

NoConn == [st |-> "none", code |-> 0, rx |-> 0, last |-> <<>>, log |-> <<>>,
           pending |-> <<>>, raises |-> FALSE, streamId |-> ""]

InitWs ==
    /\ JobsIdle
    /\ execLog = <<>>
    /\ RouterIdle
    /\ BridgeIdle
    /\ SessIdle
    /\ \E k \in KeyMaterial :
         CURRENT_SESSION = [token |-> urlsafe_b64encode(k), key_bytes |-> k,
                            host_ip |-> "127.0.0.1"]
    /\ gwPhase = "import"
    /\ ws = [c \in Conns |-> NoConn]
    /\ TetherIdle
    /\ BeamIdle
    /\ MemIdle

\* A plausible slip: startup draws a fresh key pair for the session.
StartupRegenerates ==
    /\ gwPhase = "import"
    /\ gwPhase' = "serving"
    /\ \E ip \in {"127.0.0.1", "192.168.1.5"}, k \in KeyMaterial :
         CURRENT_SESSION' = [token |-> urlsafe_b64encode(k), key_bytes |-> k,
                             host_ip |-> ip]
    /\ UNCHANGED <<ws, wsOthers>>

\* lifespan (lines 74-103): the detected address is stored in the session.
Startup ==
    /\ gwPhase = "import"
    /\ gwPhase' = "serving"
    /\ \E ip \in {"127.0.0.1", "192.168.1.5"} :
         CURRENT_SESSION' = [CURRENT_SESSION EXCEPT !.host_ip = ip]
    /\ UNCHANGED <<ws, wsOthers>>

\* websocket.accept() (line 344)
WsConnect(c) ==
    /\ gwPhase = "serving"
    /\ ws[c].st = "none"
    /\ ws' = [ws EXCEPT ![c].st = "open"]
    /\ UNCHANGED <<gwVars, wsOthers>>

Ev(kind, env) == [ev |-> kind, env |-> env]

NoEnv == [kind |-> "none"]

\* A plausible slip: any sid that is present is accepted.
SidMatchesAny(sid) == sid # None

\* sid == CURRENT_SESSION["token"] (line 360)
SidMatches(sid) == sid = CURRENT_SESSION.token

\* A plausible slip: every frame carries the default stream id.
ResponseDataDefaultStream(chunk, stream_id) ==
    [kind |-> "dict", type |-> IF chunk.done THEN "complete" ELSE "token",
     content |-> chunk.content, streamId |-> "default"]

\* The chunk's frame before encryption (lines 441-446)
ResponseData(chunk, stream_id) ==
    [kind |-> "dict", type |-> IF chunk.done THEN "complete" ELSE "token",
     content |-> chunk.content, streamId |-> stream_id]

\* One pass of the receive loop, from receive_text to its next await
\* (lines 354-437), on frame `frame`; `nonce` is the os.urandom(12) drawn if a
\* reply is encrypted and `stream` what the router does if a request is routed.
HandleFrame(w0, frame, nonce, stream) ==
    LET w == [w0 EXCEPT !.rx = @ + 1, !.last = frame]
        key == CURRENT_SESSION.key_bytes
        m == frame.v
    IN
    IF ~frame.json \/ m.kind # "dict"
    THEN \* json.loads / message_json.get raises: caught by the outer handler
         [w EXCEPT !.st = "ended", !.log = Append(@, Ev("crash", NoEnv))]
    ELSE IF m.type = "handshake"
    THEN IF SidMatches(m.sid)
         THEN [w EXCEPT !.log = Append(Append(@, Ev("hs_ok", NoEnv)),
                                       Ev("tx", Envelope(key, nonce, HandshakeOk)))]
         ELSE [w EXCEPT !.st = "closed", !.code = 4003,
                        !.log = Append(@, Ev("hs_bad", NoEnv))]
    ELSE IF ~(m.c.b64 /\ m.n.b64 /\ m.t.b64)
            \/ ~DecryptOk(key, m.n.bytes, m.c.bytes \o m.t.bytes)
    THEN [w EXCEPT !.log = Append(@, Ev("drop", NoEnv))]
    ELSE LET plaintext == AesDecrypt(key, m.n.bytes, m.c.bytes \o m.t.bytes) IN
         IF ~plaintext.json
         THEN [w EXCEPT !.log = Append(@, Ev("drop", NoEnv))]
         ELSE IF plaintext.v.kind # "dict"
         THEN [w EXCEPT !.st = "ended", !.log = Append(@, Ev("crash", NoEnv))]
         ELSE IF stream.chunks = <<>>
         THEN [w EXCEPT !.st = IF stream.raises THEN "ended" ELSE "open",
                        !.log = IF stream.raises
                                THEN Append(Append(@, Ev("route", NoEnv)), Ev("raise", NoEnv))
                                ELSE Append(@, Ev("route", NoEnv))]
         ELSE [w EXCEPT !.st = "stream", !.pending = stream.chunks,
                        !.raises = stream.raises,
                        !.streamId = plaintext.v.streamId,
                        !.log = Append(@, Ev("route", NoEnv))]

WsReceive(c) ==
    /\ ws[c].st = "open"
    /\ ws[c].rx < MaxFrames
    /\ \E frame \in ClientFrames(CURRENT_SESSION.key_bytes),
          nonce \in Nonces, stream \in RouterStreams :
         ws' = [ws EXCEPT ![c] = HandleFrame(ws[c], frame, nonce, stream)]
    /\ UNCHANGED <<gwVars, wsOthers>>

\* One pass of the streaming loop (lines 440-461): the next chunk is
\* encrypted under a fresh nonce and sent.
WsSendChunk(c) ==
    /\ ws[c].st = "stream"
    /\ \E nonce \in Nonces :
         LET w == ws[c]
             env == Envelope(CURRENT_SESSION.key_bytes, nonce,
                             ResponseData(Head(w.pending), w.streamId))
             rest == Tail(w.pending)
             sent == Append(w.log, Ev("tx", env))
         IN  ws' = [ws EXCEPT ![c] =
                IF rest # <<>>
                THEN [w EXCEPT !.pending = rest, !.log = sent]
                ELSE IF w.raises
                THEN [w EXCEPT !.pending = rest, !.st = "ended",
                               !.log = Append(sent, Ev("raise", NoEnv))]
                ELSE [w EXCEPT !.pending = rest, !.st = "open", !.log = sent]]
    /\ UNCHANGED <<gwVars, wsOthers>>

\* The client goes away: receive_text / send_text raises WebSocketDisconnect
\* (lines 463-464).
WsDisconnect(c) ==
    /\ ws[c].st \in {"open", "stream"}
    /\ ws' = [ws EXCEPT ![c].st = "ended", ![c].pending = <<>>,
                        ![c].log = Append(@, Ev("disconnect", NoEnv))]
    /\ UNCHANGED <<gwVars, wsOthers>>

NextWs ==
    \/ Startup
    \/ \E c \in Conns : WsConnect(c)
    \/ \E c \in Conns : WsReceive(c)
    \/ \E c \in Conns : WsSendChunk(c)
    \/ \E c \in Conns : WsDisconnect(c)

SpecWs == InitWs /\ [][NextWs]_vars

----------------------------------------------------------------------------
\* Properties of the /ws endpoint

RxEvents == {"hs_ok", "hs_bad", "drop", "route", "crash"}

\* Position in the log of what the handler did with the frame received last
LastRx(log) ==
    CHOOSE i \in 1..Len(log) :
        /\ log[i].ev \in RxEvents
        /\ \A j \in (i+1)..Len(log) : log[j].ev \notin RxEvents

IsHandshakeFrame(f) == f.json /\ f.v.kind = "dict" /\ f.v.type = "handshake"

IsEnvelopeFrame(f) == f.json /\ f.v.kind = "dict" /\ f.v.type # "handshake"

\* What a client holding the session key reads out of an envelope
ClientOpens(env, msg) ==
    /\ env.c.b64 /\ env.n.b64 /\ env.t.b64
    /\ env.c.bytes # <<>> /\ env.t.bytes # <<>>
    /\ env.t.bytes[1] = TagBlock(CURRENT_SESSION.key_bytes, env.n.bytes, env.c.bytes[1])
    /\ env.c.bytes[1] = CtBlock(CURRENT_SESSION.key_bytes, env.n.bytes,
                                [json |-> TRUE, v |-> msg])

\* The envelopes that are some JSON text encrypted under the session key
WellFormedEnvelopes ==
    { ClientEnvelope(CURRENT_SESSION.key_bytes, n, pt) :
        n \in Nonces, pt \in {q \in Plaintexts : q.json} }

\* C3: a request is routed on a connection only after a successful
\* handshake on that connection.
C3_RoutedOnlyAfterHandshake ==
    \A c \in Conns :
        \A i \in 1..Len(ws[c].log) :
            ws[c].log[i].ev = "route" =>
                \E j \in 1..(i-1) : ws[c].log[j].ev = "hs_ok"

\* C4: a handshake frame carrying the current token is answered with exactly
\* one envelope, which opens under the session key to {type: handshake_ok};
\* a handshake frame with any other sid closes the connection with code 4003,
\* sends nothing, and nothing further happens on the connection.
C4_HandshakeReply ==
    \A c \in Conns :
        LET w == ws[c]
            log == w.log
        IN
        /\ \A i \in 1..Len(log) :
             /\ log[i].ev = "hs_ok" =>
                  /\ i + 1 <= Len(log)
                  /\ log[i+1].ev = "tx"
                  /\ ClientOpens(log[i+1].env, HandshakeOk)
                  /\ i + 2 <= Len(log) => log[i+2].ev # "tx"
             /\ log[i].ev = "hs_bad" =>
                  /\ i = Len(log)
                  /\ w.st = "closed" /\ w.code = 4003
             /\ w.code = 4003 => w.st = "closed"
        /\ w.rx > 0 /\ IsHandshakeFrame(w.last) =>
             IF w.last.v.sid = CURRENT_SESSION.token
             THEN log[LastRx(log)].ev = "hs_ok" /\ w.st # "closed"
             ELSE /\ log[Len(log)].ev = "hs_bad"
                  /\ w.st = "closed" /\ w.code = 4003

\* Both handshake outcomes have happened on one connection over its life:
\* an accepted handshake, and then a refused one that closed it.
C4_Witness ==
    \E c \in Conns :
        /\ ws[c].st = "closed" /\ ws[c].code = 4003
        /\ \E i \in 1..Len(ws[c].log) : ws[c].log[i].ev = "hs_ok"

\* C5: an envelope that does not decrypt under the session key, or whose
\* plaintext is no JSON, is dropped: nothing is routed, nothing is sent, the
\* handler goes on, and the connection stays open.
C5_BadEnvelopeDropped ==
    \A c \in Conns :
        LET w == ws[c]
            log == w.log
        IN
        /\ w.rx > 0 /\ IsEnvelopeFrame(w.last) /\ w.last.v \notin WellFormedEnvelopes =>
             LET i == LastRx(log) IN
             /\ log[i].ev = "drop"
             /\ \/ i = Len(log) /\ w.st = "open"
                \/ /\ i + 1 = Len(log) /\ log[i+1].ev = "disconnect"
                   /\ w.st = "ended"
        /\ \A i \in 1..Len(log) :
             log[i].ev = "drop" /\ i < Len(log) =>
                 log[i+1].ev \in RxEvents \cup {"disconnect"}

\* A dropped envelope is followed, on the same connection, by a request that
\* is routed and answered to completion.
C5_Witness ==
    \E c \in Conns :
        \E i, j, k \in 1..Len(ws[c].log) :
            /\ i < j /\ j < k
            /\ ws[c].log[i].ev = "drop"
            /\ ws[c].log[j].ev = "route"
            /\ ws[c].log[k].ev = "tx"
            /\ \E m \in RequestMsgs :
                 ClientOpens(ws[c].log[k].env,
                             ResponseData(Chunk("", TRUE), m.streamId))

(***************************************************************************)
(* Tether chat proxies (app/main.py and backend/main.py).                  *)
(***************************************************************************)

\* str(uuid.uuid4())[:16]: the values the backend's token may take
TetherTokens == { <<"a","1">>, <<"b","2">> }

Bearer == <<"B","e","a","r","e","r"," ">>

\* The Authorization headers a caller may send, for a server whose token is
\* `token`; `wrong` is a token of the same shape that is not the server's.
AuthHeaders(token, wrong) ==
    { None,                          \* no Authorization header
      <<>>,                          \* an empty one
      Bearer \o token,
      token \o <<"x">>,              \* the token, then more text
      <<"x">> \o token,
      Bearer \o wrong,
      Bearer }

\* What the POST to the inference server does
UpstreamOutcomes == {"ok", "non200", "timeout", "connect_error", "error"}

NoUpstream == "not_called"

\* A plausible slip: a request without the header is let through.
AuthorizedAppMissingOk(auth_header) ==
    auth_header = None \/ Contains(auth_header, CURRENT_SESSION.token)

\* app/main.py line 129, negated
AuthorizedApp(auth_header) ==
    /\ auth_header # None
    /\ auth_header # <<>>
    /\ Contains(auth_header, CURRENT_SESSION.token)

\* backend/main.py lines 216-217, negated
AuthorizedBackend(auth_header) ==
    EndsWith(IF auth_header = None THEN <<>> ELSE auth_header, TETHER_TOKEN)

\* app/main.py tether_chat: the status returned and whether the upstream
\* POST was made.
tether_chat_app(auth_header, up) ==
    IF ~AuthorizedApp(auth_header)
    THEN [status |-> 403, upstream |-> NoUpstream]
    ELSE [status |-> IF up \in {"ok", "non200"} THEN 200 ELSE 500,
          upstream |-> up]

\* backend/main.py tether_chat
tether_chat_backend(auth_header, up) ==
    IF ~AuthorizedBackend(auth_header)
    THEN [status |-> 401, upstream |-> NoUpstream]
    ELSE [status |-> CASE up = "ok" -> 200
                       [] up = "non200" -> 502
                       [] up = "timeout" -> 504
                       [] up = "connect_error" -> 503
                       [] OTHER -> 500,
          upstream |-> up]

MaxChats == 2

InitTether ==
    /\ JobsIdle
    /\ execLog = <<>>
    /\ RouterIdle
    /\ BridgeIdle
    /\ SessIdle
    /\ \E k \in KeyMaterial :
         CURRENT_SESSION = [token |-> urlsafe_b64encode(k), key_bytes |-> k,
                            host_ip |-> "127.0.0.1"]
    /\ gwPhase = "import"
    /\ ws = [c \in Conns |-> NoConn]
    /\ tetherLog = <<>>
    /\ TETHER_TOKEN \in TetherTokens
    /\ BeamIdle
    /\ MemIdle

TetherChatApp ==
    /\ gwPhase = "serving"
    /\ Len(tetherLog) < MaxChats
    /\ \E h \in AuthHeaders(CURRENT_SESSION.token,
                            urlsafe_b64encode(OtherKey(CURRENT_SESSION.key_bytes))),
          up \in UpstreamOutcomes :
         LET r == tether_chat_app(h, up) IN
         tetherLog' = Append(tetherLog, [impl |-> "app", header |-> h,
                                         upstream |-> r.upstream, status |-> r.status])
    /\ UNCHANGED <<TETHER_TOKEN, gwVars, tetherOthers>>

TetherChatBackend ==
    /\ Len(tetherLog) < MaxChats
    /\ \E h \in AuthHeaders(TETHER_TOKEN, CHOOSE w \in TetherTokens : w # TETHER_TOKEN),
          up \in UpstreamOutcomes :
         LET r == tether_chat_backend(h, up) IN
         tetherLog' = Append(tetherLog, [impl |-> "backend", header |-> h,
                                         upstream |-> r.upstream, status |-> r.status])
    /\ UNCHANGED <<TETHER_TOKEN, gwVars, tetherOthers>>

TetherStartup ==
    /\ Startup
    /\ UNCHANGED tetherVars

NextTether ==
    \/ TetherStartup
    \/ TetherChatApp
    \/ TetherChatBackend

SpecTether == InitTether /\ [][NextTether]_vars

----------------------------------------------------------------------------
\* Properties of the tether chat proxies

ServerToken(impl) == IF impl = "app" THEN CURRENT_SESSION.token ELSE TETHER_TOKEN

HeaderCarries(header, token) ==
    /\ header # None
    /\ \E i \in 0..(Len(header) - Len(token)) :
         \A j \in 1..Len(token) : header[i + j] = token[j]

\* C6: the chat payload is forwarded upstream only when the Authorization
\* header contains the server's tether token; a request whose header is
\* missing or does not contain it is rejected and no upstream call is made.
C6_ForwardOnlyWithToken ==
    \A i \in 1..Len(tetherLog) :
        LET e == tetherLog[i]
            has == HeaderCarries(e.header, ServerToken(e.impl))
        IN  /\ e.upstream # NoUpstream => has
            /\ ~has => /\ e.upstream = NoUpstream
                       /\ e.status \in {401, 403}

\* A request with the bearer token was forwarded, and requests with no
\* header and with another token were rejected.
C6_Witness ==
    /\ \E i \in 1..Len(tetherLog) :
         /\ tetherLog[i].upstream = "ok"
         /\ tetherLog[i].header = Bearer \o ServerToken(tetherLog[i].impl)
    /\ \E i \in 1..Len(tetherLog) :
         /\ tetherLog[i].upstream = NoUpstream
         /\ tetherLog[i].impl = "app"

(***************************************************************************)
(* Beam QR verification (backend/main.py).                                 *)
(***************************************************************************)

\* os.getenv("BEAM_SECRET", ...)
SERVER_SECRET_KEY == "super_secret_key_change_this_in_prod"

QR_EXPIRATION_SECONDS == 300

\* The instants at which requests arrive
TimePoints == {1000, 1300, 1301}

\* A JSON object's value under a key: an integer, a string, or no such key
JInt(n) == [t |-> "int", v |-> n]

JStr == [t |-> "str", v |-> 0]

JMissing == [t |-> "missing", v |-> 0]

\* dict.get(key, default)
Get(field, default) == IF field.t = "missing" THEN JInt(default) ELSE field

\* payload_data of generate_beam_qr (lines 184-189)
PayloadData(action, ts) ==
    [kind |-> "dict", action |-> action, ts |-> JInt(ts),
     exp |-> JInt(QR_EXPIRATION_SECONDS)]

\* base64.urlsafe_b64encode(json.dumps(data).encode()).decode(): text that
\* decodes back to the JSON text of data.  Two texts differing in `variant`
\* are different strings.
EncodePayload(data) ==
    [b64 |-> TRUE, variant |-> 0, data |-> [json |-> TRUE, v |-> data]]

\* hmac.new(key, text.encode(), hashlib.sha256).hexdigest()
HmacHex(key, text) == [ascii |-> TRUE, mac |-> <<key, text>>]

\* A signature string with a character outside ASCII
NonAsciiSignature == [ascii |-> FALSE, mac |-> <<>>]

\* generate_beam_qr (lines 175-192): the p and sig of the deep link
generate_beam_qr(action, time) ==
    LET encoded == EncodePayload(PayloadData(action, time))
    IN  [payload |-> encoded, signature |-> HmacHex(SERVER_SECRET_KEY, encoded)]

\* hmac.compare_digest(a, b) on two str: TypeError unless both are ASCII
compare_digest(a, b) ==
    IF ~(a.ascii /\ b.ascii)
    THEN [raises |-> TRUE, equal |-> FALSE]
    ELSE [raises |-> FALSE, equal |-> (a = b)]

\* The payload strings a caller may present
BeamPayloads ==
    LET issued == generate_beam_qr("switch_agent", 1000).payload IN
    { issued,
      \* one character changed: still Base64 of JSON, with a longer life
      [issued EXCEPT !.variant = 1, !.data.v.exp = JInt(100000)],
      \* no Base64
      [issued EXCEPT !.b64 = FALSE],
      \* Base64 of bytes that are no JSON
      [issued EXCEPT !.variant = 2, !.data.json = FALSE],
      \* JSON that is no object
      [b64 |-> TRUE, variant |-> 0, data |-> [json |-> TRUE, v |-> JsonList]],
      \* an object without ts and exp
      EncodePayload([kind |-> "dict", action |-> "switch_agent",
                     ts |-> JMissing, exp |-> JMissing]),
      \* an object whose ts is a string
      EncodePayload([kind |-> "dict", action |-> "switch_agent",
                     ts |-> JStr, exp |-> JInt(QR_EXPIRATION_SECONDS)]) }

BeamSignatures(payload) ==
    { HmacHex(SERVER_SECRET_KEY, payload),
      HmacHex(SERVER_SECRET_KEY, generate_beam_qr("switch_agent", 1000).payload),
      HmacHex("another_key", payload),
      NonAsciiSignature }

BeamVerifyRequests ==
    UNION { { [payload |-> p, signature |-> s] : s \in BeamSignatures(p) } :
            p \in BeamPayloads }

Verified == [status_code |-> 200, status |-> "verified"]

HttpError(code) == [status_code |-> code, status |-> "error"]

\* verify_beam (lines 138-172) at time `time`
verify_beam(request, time) ==
    LET expected == HmacHex(SERVER_SECRET_KEY, request.payload)
        cmp == compare_digest(expected, request.signature)
        p == request.payload
    IN
    IF cmp.raises THEN HttpError(500)              \* TypeError is not caught
    ELSE IF ~cmp.equal THEN HttpError(403)
    ELSE IF ~p.b64 THEN HttpError(400)             \* binascii.Error is a ValueError
    ELSE IF ~p.data.json THEN HttpError(400)
    ELSE IF p.data.v.kind # "dict" THEN HttpError(500)   \* AttributeError
    ELSE LET ts == Get(p.data.v.ts, 0)
             exp == Get(p.data.v.exp, QR_EXPIRATION_SECONDS)
         IN  IF ts.t # "int" \/ exp.t # "int" THEN HttpError(500)   \* TypeError
             ELSE IF time - ts.v > exp.v THEN HttpError(400)
             ELSE Verified

MaxVerifies == 2

InitBeam ==
    /\ JobsIdle
    /\ execLog = <<>>
    /\ RouterIdle
    /\ BridgeIdle
    /\ SessIdle
    /\ GwIdle
    /\ TetherIdle
    /\ beamLog = <<>>
    /\ now = 1000
    /\ MemIdle

BeamTick ==
    /\ \E time \in TimePoints : time > now /\ now' = time
    /\ UNCHANGED <<beamLog, beamOthers>>

VerifyBeam ==
    /\ Len(beamLog) < MaxVerifies
    /\ \E request \in BeamVerifyRequests :
         beamLog' = Append(beamLog, [request |-> request, time |-> now,
                                     response |-> verify_beam(request, now)])
    /\ UNCHANGED <<now, beamOthers>>

NextBeam ==
    \/ BeamTick
    \/ VerifyBeam

SpecBeam == InitBeam /\ [][NextBeam]_vars

----------------------------------------------------------------------------
\* Properties of /beam/verify

SignatureMatches(request) ==
    request.signature = HmacHex(SERVER_SECRET_KEY, request.payload)

Decodable(payload) == payload.b64 /\ payload.data.json

\* The payload is an object whose ts and exp, where present, are integers
WellTyped(payload) ==
    /\ payload.data.v.kind = "dict"
    /\ payload.data.v.ts.t # "str"
    /\ payload.data.v.exp.t # "str"

Age(payload, time) ==
    time - (IF payload.data.v.ts.t = "int" THEN payload.data.v.ts.v ELSE 0)

Life(payload) ==
    IF payload.data.v.exp.t = "int" THEN payload.data.v.exp.v
    ELSE QR_EXPIRATION_SECONDS

\* C7: 'verified' is returned only for a payload whose HMAC equals the
\* signature and whose age does not exceed exp; a signature that does not
\* match yields 403 whatever the payload decodes to, an undecodable payload
\* 400, and an expired payload 400.
C7_VerifyOutcomes ==
    \A i \in 1..Len(beamLog) :
        LET e == beamLog[i]
            p == e.request.payload
        IN  /\ e.response.status = "verified" =>
                 /\ SignatureMatches(e.request)
                 /\ Decodable(p) /\ WellTyped(p)
                 /\ Age(p, e.time) <= Life(p)
            /\ ~SignatureMatches(e.request) => e.response.status_code = 403
            /\ SignatureMatches(e.request) /\ ~Decodable(p) =>
                 e.response.status_code = 400
            /\ SignatureMatches(e.request) /\ Decodable(p) /\ WellTyped(p)
               /\ Age(p, e.time) > Life(p) =>
                 e.response.status_code = 400

(***************************************************************************)
(* Memory store (_archive/memory): save_interaction, recall_memories and   *)
(* the nightly consolidation.  The database is READ COMMITTED: a           *)
(* transaction's writes are its own until it commits.                      *)
(***************************************************************************)
Max(S) == CHOOSE x \in S : \A y \in S : y <= x

EmptyFn == [i \in {} |-> 0]

Merge(f, g) ==
    [i \in (DOMAIN f) \cup (DOMAIN g) |-> IF i \in DOMAIN g THEN g[i] ELSE f[i]]

Without(f, ids) == [i \in (DOMAIN f) \ ids |-> f[i]]

\* Message texts
TextTrivial == <<" ","O","K">>

TextPlain == <<"d","e","p","l","o","y">>

TextQuery == <<"w","h","e","n">>

\* f"[Daily Summary - {today}]\n"
SummaryPrefix == <<"[","D","a","i","l","y"," ","S","u","m","m","a","r","y","]","\n">>

\* call_llama: the summary, or "" when the call fails
LlamaOutputs == { <<>>, <<"-"," ","x">> }

TRIVIAL_PATTERNS ==
    { <<"o","k">>,
      <<"o","k","a","y">>,
      <<"k">>,
      <<"t","h","a","n","k","s">>,
      <<"t","h","a","n","k"," ","y","o","u">>,
      <<"t","h","x">>,
      <<"t","y">>,
      <<"y","e","s">>,
      <<"n","o">>,
      <<"y","e","a","h">>,
      <<"y","e","p">>,
      <<"n","o","p","e">>,
      <<"s","u","r","e">>,
      <<"c","o","o","l">>,
      <<"g","o","t"," ","i","t">>,
      <<"u","n","d","e","r","s","t","o","o","d">>,
      <<"a","l","r","i","g","h","t">>,
      <<"f","i","n","e">>,
      <<"h","m","m">>,
      <<"h","m">>,
      <<"l","o","l">>,
      <<"h","a","h","a">>,
      <<"l","m","a","o">> }

\* msg.content.strip().lower() in TRIVIAL_PATTERNS
IsTrivial(content) == Lower(Strip(content)) \in TRIVIAL_PATTERNS

\* generate_embedding: a point per text; equal texts embed equally
Embedding(text) ==
    CASE text = TextTrivial -> 0
      [] text = TextQuery -> 1
      [] text = TextPlain -> 2
      [] OTHER -> 5

\* sm.embedding <=> :embedding
CosineDistance(a, b) == IF a > b THEN a - b ELSE b - a

\* conversation_id = None
NoId == 0

NoTag == <<>>

\* The calls made to save_interaction
SaveArgs ==
    { [user_id |-> "u1", device_id |-> "d1", text |-> TextTrivial,
       tag |-> NoTag, conversation_id |-> NoId],
      [user_id |-> "u1", device_id |-> "d1", text |-> TextPlain,
       tag |-> <<"note">>, conversation_id |-> NoId],
      [user_id |-> "u1", device_id |-> "d2", text |-> TextPlain,
       tag |-> NoTag, conversation_id |-> 1],
      [user_id |-> "u1", device_id |-> "d1", text |-> TextTrivial,
       tag |-> <<"note">>, conversation_id |-> 99] }

EmptyStore == [convs |-> EmptyFn, msgs |-> EmptyFn, mems |-> EmptyFn,
               hiMsg |-> 0, hiMem |-> 0]

EmptyPend == [convs |-> EmptyFn, msgs |-> EmptyFn, mems |-> EmptyFn]

Savers == {1, 2}

NoResult == [call |-> "", status |-> "none", error |-> "",
             asked |-> NoId, conversation_id |-> NoId,
             message_id |-> NoId, memory_id |-> NoId]

\* RuntimeError("Failed to save interaction: ...") (lines 202-207); error is
\* what was raised inside: "not_found" for the ValueError, "database" for a
\* SQLAlchemyError, "embedding" for the embedder's exception.
Failed(error, args) ==
    [NoResult EXCEPT !.call = "save", !.status = "failed", !.error = error,
                     !.asked = args.conversation_id]

IdleSaver == [pc |-> "idle", pend |-> EmptyPend, result |-> NoResult]

\* Rows written but not committed by the open transactions
PendingConvIds == UNION { DOMAIN savers[t].pend.convs : t \in Savers }

PendingMsgIds == UNION { DOMAIN savers[t].pend.msgs : t \in Savers }

PendingMemIds == UNION { DOMAIN savers[t].pend.mems : t \in Savers }

\* default=uuid.uuid4: an id no row has or had
FreshConvId == 1 + Max({0} \cup DOMAIN store.convs \cup PendingConvIds)

FreshMsgId == 1 + Max({store.hiMsg} \cup PendingMsgIds)

FreshMemId == 1 + Max({store.hiMem} \cup PendingMemIds)

\* A plausible slip: an id that matches no row is treated as no id.
UseGivenIdIfExists(args) ==
    args.conversation_id # NoId /\ args.conversation_id \in DOMAIN store.convs

\* `if conversation_id:` (line 147)
UseGivenId(args) == args.conversation_id # NoId

\* A plausible slip: ascending order, the least recently updated first.
LeastRecent(cands) ==
    CHOOSE c \in cands :
        \A d \in cands : store.convs[c].updated_at <= store.convs[d].updated_at

\* .order_by(Conversation.updated_at.desc()).first()
MostRecent(cands) ==
    CHOOSE c \in cands :
        \A d \in cands : store.convs[d].updated_at <= store.convs[c].updated_at

NoRow == [user_id |-> "", device_id |-> "", updated_at |-> 0]

\* Step 1 of save_interaction (lines 146-169): the conversation the message
\* goes to, with its timestamp touched; found is FALSE for the ValueError.
ConversationStep(args, time) ==
    IF UseGivenId(args)
    THEN IF args.conversation_id \in DOMAIN store.convs
         THEN [found |-> TRUE, id |-> args.conversation_id,
               row |-> [store.convs[args.conversation_id] EXCEPT !.updated_at = time]]
         ELSE [found |-> FALSE, id |-> NoId, row |-> NoRow]
    ELSE LET cands == { c \in DOMAIN store.convs :
                          /\ store.convs[c].user_id = args.user_id
                          /\ store.convs[c].device_id = args.device_id }
         IN  IF cands # {}
             THEN [found |-> TRUE, id |-> MostRecent(cands),
                   row |-> [store.convs[MostRecent(cands)] EXCEPT !.updated_at = time]]
             ELSE [found |-> TRUE, id |-> FreshConvId,
                   row |-> [user_id |-> args.user_id, device_id |-> args.device_id,
                            updated_at |-> time]]

\* A plausible slip: the message goes to the newest conversation anyone has
\* written rather than to the one this call found or created.
WithMessageToNewest(pend, conv, args) ==
    [pend EXCEPT !.msgs = FreshMsgId :> [conversation_id |-> FreshConvId - 1,
                                         content |-> args.text]]

\* Step 2 (lines 172-179): the Message row added to the transaction
WithMessage(pend, conv, args) ==
    [pend EXCEPT !.msgs = FreshMsgId :> [conversation_id |-> conv,
                                         content |-> args.text]]

\* Steps 3 and 4 (lines 182-191): the SemanticMemory row
WithMemory(pend, msg, args) ==
    [pend EXCEPT !.mems = FreshMemId :> [message_id |-> msg, tag |-> args.tag,
                                         embedding |-> Embedding(args.text),
                                         retrieval_count |-> 0]]

\* session.commit()
Commit(s, pend) ==
    [convs |-> Merge(s.convs, pend.convs),
     msgs |-> Merge(s.msgs, pend.msgs),
     mems |-> Merge(s.mems, pend.mems),
     hiMsg |-> Max({s.hiMsg} \cup DOMAIN pend.msgs),
     hiMem |-> Max({s.hiMem} \cup DOMAIN pend.mems)]

\* A plausible slip: what was flushed stays.
RollbackKeepsFlushed(s, pend) == Commit(s, pend)

\* session.rollback() (line 92)
Rollback(s, pend) == s

MaxMessages == 2

MaxRetrievals == 1

\* Message ids handed out or about to be
MessagesBegun == Max({store.hiMsg} \cup PendingMsgIds)

\* datetime.now(timezone.utc): later than every timestamp written so far
Now ==
    1 + Max({0} \cup { store.convs[c].updated_at : c \in DOMAIN store.convs }
                \cup UNION { { savers[t].pend.convs[c].updated_at :
                                 c \in DOMAIN savers[t].pend.convs } : t \in Savers })

\* Whether one more save may begin: message ids and timestamps stay small
MaySave == MessagesBegun < MaxMessages /\ Now <= MaxMessages + 1

IdleNight == [pc |-> "idle", trivial_ids |-> {}, outcome |-> ""]

NoRecallArgs == [query_text |-> <<>>, limit |-> 0, tag_filter |-> NoTag]

IdleRecall == [pc |-> "idle", args |-> NoRecallArgs, rows |-> <<>>]

Recalled(status) == [NoResult EXCEPT !.call = "recall", !.status = status]

InitMem ==
    /\ JobsIdle
    /\ execLog = <<>>
    /\ RouterIdle
    /\ BridgeIdle
    /\ SessIdle
    /\ GwIdle
    /\ TetherIdle
    /\ BeamIdle
    /\ store = EmptyStore
    /\ savers = [t \in Savers |-> IdleSaver]
    /\ night = IdleNight
    /\ recall = IdleRecall
    /\ returned = NoResult

\* save_interaction, steps 1-4 (lines 145-192): the session opens, the
\* conversation is looked up or created and touched, the Message is added,
\* the embedding generated and the SemanticMemory added.  Any of them may
\* raise; what was written is then rolled back (lines 91-93, 202-207).
SaveOpen(t) ==
    /\ savers[t].pc = "idle"
    /\ \E args \in SaveArgs,
          failAt \in {"none", "conversation", "message", "embedding", "memory"} :
         LET c == ConversationStep(args, Now)
             p0 == [EmptyPend EXCEPT !.convs = c.id :> c.row]
             mid == FreshMsgId
             p1 == WithMessage(p0, c.id, args)
             sid == FreshMemId
             p2 == WithMemory(p1, mid, args)
         IN  IF ~c.found
             THEN /\ savers' = [savers EXCEPT ![t] = IdleSaver]
                  /\ returned' = Failed("not_found", args)
                  /\ store' = Rollback(store, EmptyPend)
             ELSE IF failAt # "none"
             THEN /\ savers' = [savers EXCEPT ![t] = IdleSaver]
                  /\ returned' = Failed(IF failAt = "embedding" THEN "embedding"
                                        ELSE "database", args)
                  /\ store' = Rollback(store,
                                 CASE failAt = "conversation" -> EmptyPend
                                   [] failAt = "message" -> p0
                                   [] OTHER -> p1)
             ELSE /\ savers' = [savers EXCEPT ![t] =
                        [pc |-> "written", pend |-> p2,
                         result |-> [NoResult EXCEPT !.call = "save",
                                        !.asked = args.conversation_id,
                                        !.conversation_id = c.id,
                                        !.message_id = mid,
                                        !.memory_id = sid]]]
                  /\ returned' = returned
                  /\ store' = store
    /\ UNCHANGED <<night, recall, memOthers>>

\* A save that begins while message ids and timestamps are within the bounds
SaveBegin(t) == MaySave /\ SaveOpen(t)

\* save_interaction, step 5: _session_scope commits, or rolls back when the
\* commit raises (lines 88-93).
SaveCommit(t) ==
    /\ savers[t].pc = "written"
    /\ \E fails \in BOOLEAN :
         LET w == savers[t] IN
         IF fails
         THEN /\ savers' = [savers EXCEPT ![t] = IdleSaver]
              /\ returned' = [w.result EXCEPT !.status = "failed",
                                                !.error = "database"]
              /\ store' = Rollback(store, w.pend)
         ELSE /\ savers' = [savers EXCEPT ![t] = IdleSaver]
              /\ returned' = [w.result EXCEPT !.status = "ok"]
              /\ store' = Commit(store, w.pend)
    /\ UNCHANGED <<night, recall, memOthers>>

\* A whole successful save_interaction in one step, as the nightly job
\* calls it.
SaveWhole(args, time) ==
    LET c == ConversationStep(args, time)
        p0 == [EmptyPend EXCEPT !.convs = c.id :> c.row]
        p1 == WithMessage(p0, c.id, args)
        p2 == WithMemory(p1, FreshMsgId, args)
    IN  Commit(store, p2)

\* run_consolidation up to the summary call (lines 108-147): the recent
\* conversations, their messages, and the trivial ones among them.
NightGather ==
    /\ night.pc = "idle"
    /\ \E cutoff \in 0..Now :
         LET conversations == { c \in DOMAIN store.convs :
                                  store.convs[c].updated_at >= cutoff }
             all_messages == { m \in DOMAIN store.msgs :
                                 store.msgs[m].conversation_id \in conversations }
             trivial_ids == { m \in all_messages : IsTrivial(store.msgs[m].content) }
         IN  night' =
               IF conversations = {}
               THEN [IdleNight EXCEPT !.outcome = "skipped"]
               ELSE IF all_messages = {}
               THEN [IdleNight EXCEPT !.outcome = "skipped"]
               ELSE [night EXCEPT !.pc = "gathered", !.trivial_ids = trivial_ids,
                                  !.outcome = ""]
    /\ UNCHANGED <<store, savers, recall, returned, memOthers>>

\* The summary call and its save (lines 149-181)
NightSummary ==
    /\ night.pc = "gathered"
    /\ \E summary \in LlamaOutputs, saveFails \in BOOLEAN :
         IF summary = <<>>
         THEN /\ night' = [night EXCEPT !.pc = "summarised"]
              /\ store' = store
         ELSE IF saveFails
         THEN \* RuntimeError from save_interaction: the job's except clause
              /\ night' = [IdleNight EXCEPT !.outcome = "error"]
              /\ store' = store
         ELSE /\ MaySave
              /\ night' = [night EXCEPT !.pc = "summarised"]
              /\ store' = SaveWhole([user_id |-> "system",
                                     device_id |-> "nightly_routine",
                                     text |-> SummaryPrefix \o summary,
                                     tag |-> <<"daily_summary">>,
                                     conversation_id |-> NoId], Now)
    /\ UNCHANGED <<savers, recall, returned, memOthers>>

\* The two deletes of the pruning (lines 186-195)
Prune(s, ids) ==
    [s EXCEPT !.mems = Without(s.mems, { m \in DOMAIN s.mems :
                                           s.mems[m].message_id \in ids }),
              !.msgs = Without(s.msgs, ids)]

\* Pruning and the job's end (lines 184-204)
NightPrune ==
    /\ night.pc = "summarised"
    /\ \E fails \in BOOLEAN :
         IF night.trivial_ids = {}
         THEN /\ night' = [IdleNight EXCEPT !.outcome = "done"]
              /\ store' = store
         ELSE IF fails
         THEN /\ night' = [IdleNight EXCEPT !.outcome = "error"]
              /\ store' = Rollback(store, EmptyPend)
         ELSE /\ night' = [IdleNight EXCEPT !.outcome = "pruned"]
              /\ store' = Prune(store, night.trivial_ids)
    /\ UNCHANGED <<savers, recall, returned, memOthers>>

\* The calls made to recall_memories
RecallArgs ==
    { [query_text |-> TextQuery, limit |-> l, tag_filter |-> NoTag] : l \in {1, 2} }
    \cup
    { [query_text |-> TextPlain, limit |-> l, tag_filter |-> <<"note">>] : l \in {1, 2} }

\* A plausible slip: the tag filter is not applied.
MatchesTagAlways(tag_filter, tag) == TRUE

\* WHERE (:tag IS NULL OR sm.tag = :tag)
MatchesTag(tag_filter, tag) == tag_filter = NoTag \/ tag = tag_filter

\* The SELECT (lines 235-260): the memory ids in the order returned.  Rows
\* at equal distance come in either order.
SelectRows(args) ==
    LET q == Embedding(args.query_text)
        match == { m \in DOMAIN store.mems :
                     /\ store.mems[m].message_id \in DOMAIN store.msgs
                     /\ MatchesTag(args.tag_filter, store.mems[m].tag) }
        dist(m) == CosineDistance(store.mems[m].embedding, q)
        k == IF Cardinality(match) < args.limit THEN Cardinality(match)
             ELSE args.limit
    IN  { r \in [1..k -> match] :
            /\ \A i, j \in 1..k : i < j =>
                 r[i] # r[j] /\ dist(r[i]) <= dist(r[j])
            /\ \A m \in match \ Range(r) : \A i \in 1..k : dist(r[i]) <= dist(m) }

\* recall_memories up to the UPDATE (lines 230-275)
RecallSelect ==
    /\ recall.pc = "idle"
    /\ \A m \in DOMAIN store.mems : store.mems[m].retrieval_count < MaxRetrievals
    /\ \E args \in RecallArgs, fails \in BOOLEAN :
         IF fails
         THEN /\ recall' = IdleRecall
              /\ returned' = Recalled("failed")
         ELSE /\ \E rows \in SelectRows(args) :
                   recall' = [pc |-> "selected", args |-> args, rows |-> rows]
              /\ returned' = returned
    /\ UNCHANGED <<store, savers, night, memOthers>>

\* UPDATE ... SET retrieval_count = retrieval_count + 1 WHERE id = ANY(:ids)
Increment(mems, ids) ==
    [m \in DOMAIN mems |->
        IF m \in ids
        THEN [mems[m] EXCEPT !.retrieval_count = mems[m].retrieval_count + 1]
        ELSE mems[m]]

\* The UPDATE and the commit (lines 277-292)
RecallUpdate ==
    /\ recall.pc = "selected"
    /\ \E fails \in BOOLEAN :
         IF fails
         THEN /\ recall' = IdleRecall
              /\ returned' = Recalled("failed")
              /\ store' = Rollback(store, EmptyPend)
         ELSE /\ recall' = IdleRecall
              /\ returned' = Recalled("ok")
              /\ store' = [store EXCEPT !.mems = Increment(store.mems, Range(recall.rows))]
    /\ UNCHANGED <<savers, night, memOthers>>

NextMem ==
    \/ \E t \in Savers : SaveBegin(t)
    \/ \E t \in Savers : SaveCommit(t)
    \/ NightGather
    \/ NightSummary
    \/ NightPrune
    \/ RecallSelect
    \/ RecallUpdate

SpecMem == InitMem /\ [][NextMem]_vars

----------------------------------------------------------------------------
\* Properties of the memory store

MemoriesOf(s, m) == { x \in DOMAIN s.mems : s.mems[x].message_id = m }

\* Every committed Message has exactly one SemanticMemory, every
\* SemanticMemory an existing Message, and no row of an open transaction is
\* among the committed rows.
C8_PairedRows ==
    /\ \A m \in DOMAIN store.msgs : Cardinality(MemoriesOf(store, m)) = 1
    /\ \A x \in DOMAIN store.mems : store.mems[x].message_id \in DOMAIN store.msgs
    /\ \A m \in DOMAIN store.msgs :
         store.msgs[m].conversation_id \in DOMAIN store.convs
    /\ PendingMsgIds \cap DOMAIN store.msgs = {}
    /\ PendingMemIds \cap DOMAIN store.mems = {}

\* A step of some save_interaction call
IsSaveStep == night' = night /\ recall' = recall

\* A save that fails leaves the committed rows as they were; a save that
\* succeeds commits its conversation touch, Message and SemanticMemory in
\* one step; pruning removes a Message with its SemanticMemory and no other
\* SemanticMemory.
C8_AtomicSave ==
    /\ IsSaveStep /\ returned'.call = "save" /\ returned'.status = "failed"
         => store' = store
    /\ \A t \in Savers :
         savers[t].pc = "written" /\ savers'[t].pc = "idle"
         /\ returned'.status = "ok" =>
           LET r == returned' IN
           /\ r.message_id \notin DOMAIN store.msgs
           /\ r.memory_id \notin DOMAIN store.mems
           /\ DOMAIN store'.msgs = DOMAIN store.msgs \cup {r.message_id}
           /\ DOMAIN store'.mems = DOMAIN store.mems \cup {r.memory_id}
           /\ store'.mems[r.memory_id].message_id = r.message_id
           /\ store'.msgs[r.message_id].conversation_id = r.conversation_id
           /\ r.conversation_id \in DOMAIN store'.convs
           /\ store'.convs[r.conversation_id] = savers[t].pend.convs[r.conversation_id]
    /\ night.pc = "summarised" /\ night'.pc = "idle" =>
         /\ DOMAIN store.msgs \ DOMAIN store'.msgs \subseteq night.trivial_ids
         /\ \A x \in DOMAIN store.mems \ DOMAIN store'.mems :
              store.mems[x].message_id \notin DOMAIN store'.msgs
         /\ store'.convs = store.convs

C9_UnknownIdStep ==
    /\ \A t \in Savers :
         savers[t].pc = "idle" /\ savers'[t].pc = "written"
         /\ savers'[t].result.asked # NoId =>
             savers'[t].result.asked \in DOMAIN store.convs
    /\ IsSaveStep /\ savers' = savers /\ returned'.call = "save"
       /\ returned'.asked # NoId /\ returned'.asked \notin DOMAIN store.convs =>
         /\ returned'.status = "failed"
         /\ store' = store

\* C9: save_interaction called with a conversation id that matches no
\* Conversation fails, and the committed rows stay as they were: the call
\* writes nothing and never gets as far as a commit.
C9_UnknownConversationFails == [][C9_UnknownIdStep]_vars

\* A call naming an unknown conversation failed while other conversations
\* exist.
C9_Witness ==
    /\ returned.call = "save" /\ returned.status = "failed"
    /\ returned.asked # NoId
    /\ returned.asked \notin DOMAIN store.convs
    /\ DOMAIN store.convs # {}
    /\ DOMAIN store.msgs # {}

C10_RecallStep ==
    LET selecting == recall.pc = "idle" /\ recall'.pc = "selected"
        updating == recall.pc = "selected" /\ recall'.pc = "idle"
        a == recall'.args
        rows == recall'.rows
        tagged == { m \in DOMAIN store.mems :
                      a.tag_filter # NoTag => store.mems[m].tag = a.tag_filter }
        D(m) == CosineDistance(store.mems[m].embedding, Embedding(a.query_text))
    IN
    /\ selecting =>
         /\ Len(rows) <= a.limit
         /\ \A i \in 1..Len(rows) : rows[i] \in tagged
         /\ \A i, j \in 1..Len(rows) : i < j =>
              rows[i] # rows[j] /\ D(rows[i]) <= D(rows[j])
         /\ \A m \in tagged \ Range(rows) :
              /\ Len(rows) = a.limit
              /\ \A i \in 1..Len(rows) : D(rows[i]) <= D(m)
    /\ updating /\ returned'.status = "ok" =>
         /\ DOMAIN store'.mems = DOMAIN store.mems
         /\ \A m \in DOMAIN store.mems :
              store'.mems[m] =
                IF m \in Range(recall.rows)
                THEN [store.mems[m] EXCEPT
                        !.retrieval_count = store.mems[m].retrieval_count + 1]
                ELSE store.mems[m]
         /\ store'.msgs = store.msgs /\ store'.convs = store.convs
    /\ updating /\ returned'.status = "failed" => store' = store
    /\ ~updating =>
         \A m \in DOMAIN store.mems \cap DOMAIN store'.mems :
            store'.mems[m].retrieval_count = store.mems[m].retrieval_count

\* C10: recall_memories returns at most limit rows, all matching the tag
\* filter, the nearest ones by cosine distance in ascending order; when it
\* returns, retrieval_count is one higher for every returned row and
\* unchanged for every other, and no count changes at any other moment.
C10_RecallCounts == [][C10_RecallStep]_vars

\* A recall has returned: one memory has been counted and another has not.
C10_Witness ==
    /\ returned.call = "recall" /\ returned.status = "ok"
    /\ \E m \in DOMAIN store.mems : store.mems[m].retrieval_count = 1
    /\ \E m \in DOMAIN store.mems :
         /\ store.mems[m].retrieval_count = 0
         /\ store.mems[m].tag = NoTag

(***************************************************************************)
(* Router (app/core/router.py, and the archived _archive/app/core/         *)
(* router.py): the fallback chain and the chunk stream of execute.         *)
(***************************************************************************)
RouteTarget == {"LOCAL", "GEMINI", "CLAUDE", "OLLAMA"}

\* ComplexityScore.recommendation (scorer.py line 15)
Recommendations == {"local", "gemini", "claude", "ollama"}

\* Optional[str] API keys: None (or ""), or a key
ApiKeys == { <<>>, <<"k">> }

RouterImpls == {"app", "archive"}

\* Router.__init__: bool(key) for the cloud flags; the local flag starts
\* False in app/ and True in the archive.
NewRouter(impl, s) ==
    [impl |-> impl,
     _gemini_available |-> s.GEMINI_API_KEY # <<>>,
     _claude_available |-> s.ANTHROPIC_API_KEY # <<>>,
     _ollama_checked |-> FALSE,
     _ollama_available |-> impl = "archive"]

ReasonLocal ==
    <<"L","o","w"," ","c","o","m","p","l","e","x","i","t","y",","," ","h",
      "a","n","d","l","e","d"," ","l","o","c","a","l","l","y">>

ReasonGemini ==
    <<"R","o","u","t","e","d"," ","t","o"," ","G","e","m","i","n","i"," ",
      "(","s","p","e","e","d"," ","+"," ","m","u","l","t","i","m","o","d",
      "a","l",")">>

ReasonGeminiToClaude ==
    <<"G","e","m","i","n","i"," ","u","n","a","v","a","i","l","a","b","l",
      "e",","," ","f","a","l","l","b","a","c","k"," ","t","o"," ","C","l",
      "a","u","d","e">>

ReasonCloudToOllama ==
    <<"C","l","o","u","d"," ","u","n","a","v","a","i","l","a","b","l","e",
      ","," ","f","a","l","l","b","a","c","k"," ","t","o"," ","O","l","l",
      "a","m","a">>

ReasonNoBackends ==
    <<"N","o"," ","b","a","c","k","e","n","d","s"," ","a","v","a","i","l",
      "a","b","l","e">>

ReasonClaude ==
    <<"R","o","u","t","e","d"," ","t","o"," ","C","l","a","u","d","e"," ",
      "(","c","o","d","e","/","r","e","s","e","a","r","c","h",")">>

ReasonClaudeToGemini ==
    <<"C","l","a","u","d","e"," ","u","n","a","v","a","i","l","a","b","l",
      "e",","," ","f","a","l","l","b","a","c","k"," ","t","o"," ","G","e",
      "m","i","n","i">>

ReasonDefaultOllama ==
    <<"U","s","i","n","g"," ","l","o","c","a","l"," ","O","l","l","a","m",
      "a">>

ReasonOffline ==
    <<"O","f","f","l","i","n","e"," ","m","o","d","e">>

Decision(target, reason) == [target |-> target, reason |-> reason]

\* No RouteDecision is waiting to be executed.
NoDecision == [rec |-> "", target |-> "", reason |-> <<>>]

\* A plausible slip: the first cloud backend is taken without looking at its
\* flag.
ResolveIgnoringFlags(r, recommendation) ==
    IF recommendation = "local" THEN Decision("LOCAL", ReasonLocal)
    ELSE IF recommendation = "gemini" THEN Decision("GEMINI", ReasonGemini)
    ELSE IF recommendation = "claude" THEN Decision("CLAUDE", ReasonClaude)
    ELSE IF r._ollama_available THEN Decision("OLLAMA", ReasonDefaultOllama)
    ELSE Decision("LOCAL", ReasonOffline)

\* Router._resolve_target (app, lines 118-149)
_resolve_target(r, recommendation) ==
    IF recommendation = "local" THEN Decision("LOCAL", ReasonLocal)
    ELSE IF recommendation = "gemini"
    THEN IF r._gemini_available THEN Decision("GEMINI", ReasonGemini)
         ELSE IF r._claude_available THEN Decision("CLAUDE", ReasonGeminiToClaude)
         ELSE IF r._ollama_available THEN Decision("OLLAMA", ReasonCloudToOllama)
         ELSE Decision("LOCAL", ReasonNoBackends)
    ELSE IF recommendation = "claude"
    THEN IF r._claude_available THEN Decision("CLAUDE", ReasonClaude)
         ELSE IF r._gemini_available THEN Decision("GEMINI", ReasonClaudeToGemini)
         ELSE IF r._ollama_available THEN Decision("OLLAMA", ReasonCloudToOllama)
         ELSE Decision("LOCAL", ReasonNoBackends)
    ELSE IF r._ollama_available THEN Decision("OLLAMA", ReasonDefaultOllama)
    ELSE Decision("LOCAL", ReasonOffline)

\* The queries execute is called with.
QueryHi == <<" ","H","i">>

QueryTime ==
    <<"W","h","a","t"," ","t","i","m","e","?">>

QueryDate ==
    <<"d","a","t","e"," ","t","o","d","a","y">>

QueryStatus == <<"s","t","a","t","u","s">>

Queries == { QueryHi, QueryTime, QueryDate, QueryStatus, TextPlain }

Word(w) ==
    CASE w = "time" -> <<"t","i","m","e">>
      [] w = "what" -> <<"w","h","a","t">>
      [] w = "current" -> <<"c","u","r","r","e","n","t">>
      [] w = "date" -> <<"d","a","t","e">>
      [] w = "today" -> <<"t","o","d","a","y">>
      [] w = "hello" -> <<"h","e","l","l","o">>
      [] w = "hi" -> <<"h","i">>
      [] w = "hey" -> <<"h","e","y">>
      [] w = "status" -> <<"s","t","a","t","u","s">>

\* The reply _handle_local gives without a backend ("" when it gives none):
\* app lines 185-202, archive lines 125-131.
Reflex(impl, query) ==
    LET query_lower == Strip(Lower(query))
        has(w) == Contains(query_lower, Word(w))
    IN
    IF impl = "archive"
    THEN IF query_lower \in {Word("hello"), Word("hi"), Word("hey"), Word("status")}
         THEN "[Reflex] System Status" ELSE ""
    ELSE IF query_lower \in {Word("hello"), Word("hi"), Word("hey")}
    THEN "Yo, choom. What's the run?"
    ELSE IF has("time") /\ (has("what") \/ has("current"))
    THEN "Current time: 12:00:00"
    ELSE IF has("date") /\ (has("what") \/ has("today"))
    THEN "Today's date: 2026-01-01"
    ELSE ""

\* What the HTTP response stream hands the adapter next: an empty line (or
\* one without the "data: " prefix), a JSON line with text, the backend's
\* closing JSON line (done=true, no text), or a line that is no JSON.
LineKinds == {"blank", "text", "last", "bad"}

\* What one pass of an adapter's `async for line` loop does with the line.
LineEffect(impl, adapter, line) ==
    IF line = "blank" THEN "skip"
    ELSE IF line = "text" THEN "yield"
    ELSE IF adapter \in {"_call_gemini", "_call_claude", "_call_omnissiah"}
    THEN \* a data line without candidates / that is no content_block_delta
         IF line = "last" THEN "skip" ELSE "raise"
    ELSE IF impl = "archive"
    THEN \* done is not read, and `except: pass` swallows the bad line
         "skip"
    ELSE IF line = "last" THEN "break" ELSE "raise"

\* The final chunk an adapter yields from its `except Exception` clause.
ErrorChunk(impl, adapter) ==
    Chunk(CASE adapter = "_handle_local" /\ impl = "app" ->
                   "Link unstable. Can't reach local chrome."
            [] adapter = "_handle_local" /\ impl = "archive" -> "Overseer Offline: "
            [] adapter = "_call_gemini" -> "Gemini error: "
            [] adapter = "_call_claude" -> "Claude error: "
            [] adapter = "_call_ollama" -> "Ollama error: "
            [] adapter = "_call_servitor" -> "Servitor Malfunction: "
            [] adapter = "_call_omnissiah" -> "Omnissiah Unreachable: ",
          TRUE)

MaxLines == 2

\* decision is the RouteDecision route() returned that execute has not been
\* given yet; the other fields are the generator's.
IdleRun == [pc |-> "idle", target |-> "", adapter |-> "", out |-> <<>>, n |-> 0,
            decision |-> NoDecision]

Finished(target, chunks) ==
    [IdleRun EXCEPT !.pc = "done", !.target = target, !.out = chunks]

Streaming(target, adapter, chunks) ==
    [IdleRun EXCEPT !.pc = "stream", !.target = target, !.adapter = adapter,
                    !.out = chunks]

\* Router.execute from the call to the adapter's first await on the HTTP
\* stream, or to its end when no request is made (app lines 151-180 with
\* the head of each adapter).
execute_app(r, s, query, target) ==
    IF target = "LOCAL"
    THEN IF Reflex("app", query) # ""
         THEN Finished(target, <<Chunk(Reflex("app", query), TRUE)>>)
         ELSE IF r._ollama_available
         THEN Streaming(target, "_handle_local", <<>>)
         ELSE Finished(target, <<Chunk("Data corrupted. Need backend sync.", TRUE)>>)
    ELSE IF target = "GEMINI"
    THEN IF s.GEMINI_API_KEY = <<>>
         THEN Finished(target, <<Chunk("Gemini API key not configured", TRUE)>>)
         ELSE Streaming(target, "_call_gemini", <<>>)
    ELSE IF target = "CLAUDE"
    THEN IF s.ANTHROPIC_API_KEY = <<>>
         THEN Finished(target, <<Chunk("Claude API key not configured", TRUE)>>)
         ELSE Streaming(target, "_call_claude", <<>>)
    ELSE Streaming(target, "_call_ollama", <<>>)

\* The archived Router.execute (lines 95-119 with the head of each adapter):
\* it has no branch for CLAUDE, and two adapters yield a header first.
execute_archive(r, s, query, target) ==
    IF target = "LOCAL"
    THEN IF Reflex("archive", query) # ""
         THEN Finished(target, <<Chunk(Reflex("archive", query), TRUE)>>)
         ELSE Streaming(target, "_handle_local", <<>>)
    ELSE IF target = "OLLAMA"
    THEN Streaming(target, "_call_servitor",
            <<Chunk("[Hadron] Delegating to Servitor-Unit. Processing:", FALSE)>>)
    ELSE IF target = "GEMINI"
    THEN Streaming(target, "_call_omnissiah",
            <<Chunk("[Communing with the Omnissiah...]", FALSE)>>)
    ELSE Finished(target, <<>>)

InitRouter ==
    /\ JobsIdle
    /\ execLog = <<>>
    /\ SessIdle
    /\ GwIdle
    /\ TetherIdle
    /\ BeamIdle
    /\ MemIdle
    /\ BridgeIdle
    /\ settings \in [GEMINI_API_KEY : ApiKeys, ANTHROPIC_API_KEY : ApiKeys]
    /\ \E impl \in RouterImpls : router = NewRouter(impl, settings)
    /\ run = IdleRun

\* check_backends (app lines 59-79; the archive's changes nothing): the
\* local flag is written only when the request returned.
CheckBackends ==
    /\ router.impl = "app"
    /\ \E outcome \in {"200", "non200", "exception"} :
         router' = [router EXCEPT
            !._ollama_available = IF outcome = "exception" THEN @ ELSE outcome = "200",
            !._ollama_checked = TRUE]
    /\ UNCHANGED <<settings, run, routerOthers>>

\* route (app lines 81-115): the scorer's recommendation is resolved.
RouteQuery ==
    /\ router.impl = "app"
    /\ run.pc \in {"idle", "done"}
    /\ run.decision = NoDecision
    /\ \E rec \in Recommendations :
         LET d == _resolve_target(router, rec) IN
         run' = [run EXCEPT !.decision =
                    [rec |-> rec, target |-> d.target, reason |-> d.reason]]
    /\ UNCHANGED <<settings, router, routerOthers>>

\* A call of execute: an endpoint passes the decision route() returned; any
\* other caller passes a RouteDecision of its own.
ExecuteBegin ==
    /\ run.pc \in {"idle", "done"}
    /\ \E query \in Queries, target \in RouteTarget :
         /\ run.decision # NoDecision => target = run.decision.target
         /\ run' = IF router.impl = "app"
                   THEN execute_app(router, settings, query, target)
                   ELSE execute_archive(router, settings, query, target)
    /\ UNCHANGED <<settings, router, routerOthers>>

\* The response stream delivers a line.
StreamLine ==
    /\ run.pc = "stream"
    /\ run.n < MaxLines
    /\ \E line \in LineKinds :
         LET effect == LineEffect(router.impl, run.adapter, line)
             read == [run EXCEPT !.n = @ + 1]
         IN  run' =
               IF effect = "skip" THEN read
               ELSE IF effect = "yield"
               THEN [read EXCEPT !.out = Append(@, Chunk("tok", FALSE))]
               ELSE IF effect = "break"
               THEN [read EXCEPT !.pc = "done", !.out = Append(@, Chunk("", TRUE))]
               ELSE [read EXCEPT !.pc = "done", !.out = Append(@, ErrorChunk(router.impl, run.adapter))]
    /\ UNCHANGED <<settings, router, routerOthers>>

\* The response stream ends: the adapter yields its closing chunk.
StreamEnd ==
    /\ run.pc = "stream"
    /\ run' = [run EXCEPT !.pc = "done", !.out = Append(@, Chunk("", TRUE))]
    /\ UNCHANGED <<settings, router, routerOthers>>

\* The request fails (no connection, a timeout, a reset), before the first
\* line or between two lines.
StreamFail ==
    /\ run.pc = "stream"
    /\ run' = [run EXCEPT !.pc = "done", !.out = Append(@, ErrorChunk(router.impl, run.adapter))]
    /\ UNCHANGED <<settings, router, routerOthers>>

NextRouter ==
    \/ CheckBackends
    \/ RouteQuery
    \/ ExecuteBegin
    \/ StreamLine
    \/ StreamEnd
    \/ StreamFail

SpecRouter == InitRouter /\ [][NextRouter]_vars

----------------------------------------------------------------------------
\* Properties of the router

Fallback == <<"f","a","l","l","b","a","c","k">>

\* The chain the claim describes, for a preferred cloud backend `first` and
\* the other one `second`.
ChainTarget(first, second, firstUp, secondUp, localUp) ==
    IF firstUp THEN first
    ELSE IF secondUp THEN second
    ELSE IF localUp THEN "OLLAMA"
    ELSE "LOCAL"

C11_RouteStep ==
    (run'.decision # run.decision /\ run'.decision # NoDecision) =>
       LET d == run'.decision
           g == router._gemini_available
           c == router._claude_available
           o == router._ollama_available
       IN
       /\ d.rec = "gemini" =>
             /\ d.target = ChainTarget("GEMINI", "CLAUDE", g, c, o)
             /\ d.target = "CLAUDE" => Contains(d.reason, Fallback)
       /\ d.rec = "claude" =>
             /\ d.target = ChainTarget("CLAUDE", "GEMINI", c, g, o)
             /\ d.target = "GEMINI" => Contains(d.reason, Fallback)
       /\ (d.rec \in {"gemini", "claude"} /\ d.target = "LOCAL") =>
             d.reason = ReasonNoBackends
       /\ d.target = "GEMINI" => g
       /\ d.target = "CLAUDE" => c
       /\ d.target = "OLLAMA" => o

(***************************************************************************)
(* C11: for every combination of the three availability flags, a 'gemini'  *)
(* recommendation resolves to GEMINI if its flag is set, else CLAUDE if    *)
(* its flag is set (with a reason that mentions fallback), else OLLAMA if  *)
(* the local flag is set, else LOCAL with reason "No backends available";  *)
(* 'claude' resolves by the same chain with the cloud backends swapped;    *)
(* the resolved target is never a backend whose flag is unset.             *)
(***************************************************************************)
C11_FallbackChain == [][C11_RouteStep]_vars

\* route() has answered a gemini recommendation with CLAUDE, the first
\* backend's flag being unset and the second's set.
C11_Witness ==
    /\ run.decision.rec = "gemini"
    /\ run.decision.target = "CLAUDE"
    /\ ~router._gemini_available
    /\ router._claude_available

DoneChunks(out) == { i \in 1..Len(out) : out[i].done }

Frames(out) == [i \in 1..Len(out) |-> ResponseData(out[i], "s1")]

(***************************************************************************)
(* C13: every request served on the /ws endpoint by the router ends with   *)
(* exactly one 'complete' frame, and that frame has empty content: every   *)
(* adapter path ends with an empty-content done=true chunk, and all text   *)
(* is carried by the 'token' frames before it.                             *)
(***************************************************************************)
C13_CompleteFrameIsEmpty ==
    (router.impl = "app" /\ run.pc = "done") =>
       LET f == Frames(run.out) IN
       /\ f # <<>>
       /\ \A i \in 1..Len(f) : (f[i].type = "complete") = (i = Len(f))
       /\ f[Len(f)].content = ""

(***************************************************************************)
(* NeuroBeam host bridge (neurobeam/host-bridge.py): one bridge object     *)
(* whose BeamSession is shared by every connection's handle_client.        *)
(***************************************************************************)
\* secrets.token_hex(16): the values the session id may take
BridgeSids == {"a1f0", "b2e9"}

\* self.session: None, or the BeamSession with its authenticated flag
NoSession == [exists |-> FALSE, authenticated |-> FALSE, created_at |-> 0]

\* BeamCrypto.encrypt (lines 91-98): {c, n}, the tag inside c
BeamEncrypt(key, nonce, msg) ==
    [kind |-> "dict", type |-> "", sid |-> "",
     c |-> b64encode(AesEncrypt(key, nonce, [json |-> TRUE, v |-> msg])),
     n |-> b64encode(nonce)]

\* BeamCrypto.decrypt (lines 100-105) succeeds: both fields are there and
\* the tag authenticates the ciphertext under the bridge's key.
BeamDecryptOk(key, envelope) ==
    /\ envelope.kind = "dict"
    /\ envelope.c.bytes # <<>> /\ envelope.n.bytes # <<>>
    /\ DecryptOk(key, envelope.n.bytes, envelope.c.bytes)

Notepad == <<"n","o","t","e","p","a","d">>

LanHost == <<"1","9","2",".","1","6","8",".","1",".","5">>

\* What a client encrypts: a ping, commands for each target, a request to
\* proxy, and a message of no known type.
BeamRequest(type, target, action, params) ==
    [kind |-> "dict", type |-> type, target |-> target, action |-> action,
     params |-> params]

BeamRequests ==
    { BeamRequest("ping", "", "", <<>>),
      BeamRequest("command", "windows", "launch_app", [app |-> Notepad]),
      BeamRequest("command", "remote", "rdp_launch",
                  [host |-> LanHost, username |-> None]),
      BeamRequest("command", "android", "toggle_flashlight", <<>>),
      BeamRequest("command", "toaster", "toast", <<>>),
      BeamRequest("request", "", "", <<>>),
      BeamRequest("hello", "", "", <<>>) }

\* The text frames a client may send, as json.loads reads them: text that is
\* no JSON, a handshake with the right or a wrong sid, an envelope under the
\* bridge's key for each request, and an envelope under another key.
BeamFrames(b) ==
    { [json |-> FALSE, v |-> JsonList] }
    \cup { [json |-> TRUE,
            v |-> [kind |-> "dict", type |-> "handshake", sid |-> s,
                   c |-> Absent, n |-> Absent]] : s \in BridgeSids }
    \cup { [json |-> TRUE, v |-> BeamEncrypt(b.session_key, <<7>>, q)] :
           q \in BeamRequests }
    \cup { [json |-> TRUE,
            v |-> BeamEncrypt(OtherKey(b.session_key), <<7>>,
                              BeamRequest("ping", "", "", <<>>))] }

\* What handle_client did with a frame, and for a routed action what
\* route_action did (session is self.session as the call found it).
NoRoute ==
    [target |-> "", executor |-> "", forwarded |-> 0, success |-> FALSE,
     error |-> "", session |-> NoSession]

Bev(ev, type, route) == [ev |-> ev, type |-> type, route |-> route]

\* A plausible slip: the command is forwarded whether or not a session is
\* authenticated.
AndroidConnectedAlways(b) == TRUE

\* self.session and self.session.authenticated (line 257)
AndroidConnected(b) == b.session.exists /\ b.session.authenticated

\* pc_executor.execute (pc_executor.py lines 181-197): the handler of a
\* known action is run, with the operating system answering `os`.
pc_execute(action, params, os) ==
    IF action = "launch_app" THEN launch_app(params, os).result.success
    ELSE IF action \in {"mute_audio", "capture_screen"} THEN os = "ok"
    ELSE FALSE

\* SessionManager.execute for rdp_launch (session_manager.py lines 199-228)
session_execute(action, params, os) ==
    IF action = "rdp_launch"
    THEN params.host # None /\ params.host # <<>> /\ _is_allowed(params.host)
         /\ os = "ok"
    ELSE FALSE

\* route_action (lines 233-265): who was called, how many device_command
\* envelopes were sent on the websocket, and the result returned.
route_action(b, routing, os) ==
    IF routing.target = "windows"
    THEN [NoRoute EXCEPT !.target = routing.target, !.executor = "pc_executor",
             !.success = pc_execute(routing.action, routing.params, os),
             !.session = b.session]
    ELSE IF routing.target = "remote"
    THEN [NoRoute EXCEPT !.target = routing.target, !.executor = "session_manager",
             !.success = session_execute(routing.action, routing.params, os),
             !.session = b.session]
    ELSE IF routing.target = "android"
    THEN IF AndroidConnected(b)
         THEN [NoRoute EXCEPT !.target = routing.target, !.forwarded = 1,
                  !.success = TRUE, !.session = b.session]
         ELSE [NoRoute EXCEPT !.target = routing.target,
                  !.error = "No authenticated Android device connected",
                  !.session = b.session]
    ELSE [NoRoute EXCEPT !.target = routing.target, !.error = "Unknown target",
             !.session = b.session]

BeamConns == {1, 2}

MaxBeamMsgs == 3

NoClient == [st |-> "none", rx |-> 0, log |-> <<>>]

InitBridge ==
    /\ JobsIdle
    /\ execLog = <<>>
    /\ SessIdle
    /\ GwIdle
    /\ TetherIdle
    /\ BeamIdle
    /\ MemIdle
    /\ RouterIdle
    /\ \E sid \in BridgeSids, key \in KeyMaterial :
         bridge = [session_id |-> sid, session_key |-> key, session |-> NoSession]
    /\ clients = [c \in BeamConns |-> NoClient]

\* websockets.serve starts handle_client for a new connection.
BridgeConnect(c) ==
    /\ clients[c].st = "none"
    /\ clients' = [clients EXCEPT ![c].st = "open"]
    /\ UNCHANGED <<bridge, bridgeOthers>>

\* The `finally` of handle_client (lines 379-381)
Deauthenticated(b) ==
    IF b.session.exists THEN [b EXCEPT !.session.authenticated = FALSE] ELSE b

\* The effect of the executor route_action called: launch_app's process and
\* the RDP client rdp_launch starts.
ExecutorEffects(routing, os) ==
    /\ execLog' =
         IF routing.target = "windows" /\ routing.action = "launch_app"
         THEN LET r == launch_app(routing.params, os) IN
              Append(execLog, [params |-> routing.params, os |-> os,
                               call |-> r.call, result |-> r.result])
         ELSE execLog
    /\ rdpLog' =
         IF routing.target = "remote" /\ routing.action = "rdp_launch"
            /\ routing.params.host # None /\ routing.params.host # <<>>
            /\ _is_allowed(routing.params.host)
         THEN rdpLog \cup {routing.params.host}
         ELSE rdpLog
    /\ UNCHANGED <<allowed_hosts, active_ssh, sessions, sshTask, gwVars, wsVars,
                   tetherVars, beamVars, memVars, routerVars, jobVars>>

NoEffects == UNCHANGED bridgeOthers

BeamMessagesSeen == clients[1].rx + clients[2].rx

\* One pass of the `async for message` loop (lines 327-372), up to the next
\* message or, for a request, up to the call of Ollama.
BridgeReceive(c) ==
    /\ clients[c].st = "open"
    /\ BeamMessagesSeen < MaxBeamMsgs
    /\ \E frame \in BeamFrames(bridge), os \in {"ok", "OSError"} :
         LET w == [clients[c] EXCEPT !.rx = @ + 1]
             m == frame.v
             logged(e) == [w EXCEPT !.log = Append(@, e)]
         IN
         IF ~frame.json
         THEN \* json.JSONDecodeError: printed, the loop goes on
              /\ clients' = [clients EXCEPT ![c] = logged(Bev("drop", "", NoRoute))]
              /\ UNCHANGED bridge
              /\ NoEffects
         ELSE IF ~(bridge.session.exists /\ bridge.session.authenticated)
         THEN \* handshake (lines 179-209)
              IF m.type # "handshake"
              THEN /\ clients' = [clients EXCEPT ![c] =
                         [logged(Bev("hs_false", "", NoRoute)) EXCEPT !.st = "closed"]]
                   /\ bridge' = Deauthenticated(bridge)
                   /\ NoEffects
              ELSE IF m.sid # bridge.session_id
              THEN /\ clients' = [clients EXCEPT ![c] =
                         [logged(Bev("hs_error", "", NoRoute)) EXCEPT !.st = "closed"]]
                   /\ bridge' = Deauthenticated(bridge)
                   /\ NoEffects
              ELSE /\ clients' = [clients EXCEPT ![c] = logged(Bev("hs_ok", "", NoRoute))]
                   /\ bridge' = [bridge EXCEPT !.session =
                                    [exists |-> TRUE, authenticated |-> TRUE,
                                     created_at |-> now]]
                   /\ NoEffects
         ELSE IF ~BeamDecryptOk(bridge.session_key, m)
         THEN \* decrypt raises: printed, the loop goes on
              /\ clients' = [clients EXCEPT ![c] = logged(Bev("drop", "", NoRoute))]
              /\ UNCHANGED bridge
              /\ NoEffects
         ELSE LET request == AesDecrypt(bridge.session_key, m.n.bytes, m.c.bytes).v IN
              IF request.type = "command"
              THEN /\ clients' = [clients EXCEPT ![c] =
                         logged(Bev("served", "command",
                                    route_action(bridge, request, os)))]
                   /\ UNCHANGED bridge
                   /\ ExecutorEffects(request, os)
              ELSE IF request.type = "request"
              THEN /\ clients' = [clients EXCEPT ![c] = [w EXCEPT !.st = "ollama"]]
                   /\ UNCHANGED bridge
                   /\ NoEffects
              ELSE /\ clients' = [clients EXCEPT ![c] =
                         logged(Bev("served", request.type, NoRoute))]
                   /\ UNCHANGED bridge
                   /\ NoEffects

\* What the model's answer holds for _extract_routing_block: no routing
\* block, or one for the phone; or the call of Ollama fails.
LlmOutcomes == {"plain", "android", "error"}

\* proxy_to_ollama returns (lines 290-319) and the response is sent.
BridgeOllamaReturned(c) ==
    /\ clients[c].st = "ollama"
    /\ \E llm \in LlmOutcomes :
         clients' = [clients EXCEPT ![c] =
            [@ EXCEPT !.st = "open",
                      !.log = Append(@, Bev("served", "request",
                          IF llm = "android"
                          THEN route_action(bridge,
                                  BeamRequest("", "android", "toggle_flashlight", <<>>),
                                  "ok")
                          ELSE NoRoute))]]
    /\ UNCHANGED <<bridge, bridgeOthers>>

\* The connection closes while the loop waits for a message: the loop ends
\* and `finally` runs.
BridgeDisconnect(c) ==
    /\ clients[c].st = "open"
    /\ clients' = [clients EXCEPT ![c].st = "closed"]
    /\ bridge' = Deauthenticated(bridge)
    /\ UNCHANGED bridgeOthers

NextBridge ==
    \/ \E c \in BeamConns : BridgeConnect(c)
    \/ \E c \in BeamConns : BridgeReceive(c)
    \/ \E c \in BeamConns : BridgeOllamaReturned(c)
    \/ \E c \in BeamConns : BridgeDisconnect(c)

SpecBridge == InitBridge /\ [][NextBridge]_vars

----------------------------------------------------------------------------
\* Properties of the host bridge

\* The route_action calls made so far.
RouteCalls ==
    { e.route : e \in { x \in UNION { Range(clients[c].log) : c \in BeamConns } :
                           x.route.target # "" } }

(***************************************************************************)
(* C14: route_action dispatches by target: 'windows' to the PC Executor,   *)
(* 'remote' to the Session Manager; 'android' sends exactly one            *)
(* device_command envelope and reports success if a session is             *)
(* authenticated on the tunnel at the call, and otherwise sends nothing    *)
(* and reports success=false; any other target returns success=false with  *)
(* the unknown-target error and no executor is invoked.                    *)
(***************************************************************************)
C14_RouteActionDispatch ==
    \A r \in RouteCalls :
       /\ r.target = "windows" => r.executor = "pc_executor" /\ r.forwarded = 0
       /\ r.target = "remote" => r.executor = "session_manager" /\ r.forwarded = 0
       /\ r.target = "android" =>
             /\ r.executor = ""
             /\ IF r.session.exists /\ r.session.authenticated
                THEN r.forwarded = 1 /\ r.success
                ELSE r.forwarded = 0 /\ ~r.success
       /\ r.target \notin {"windows", "remote", "android"} =>
             /\ r.executor = "" /\ r.forwarded = 0 /\ ~r.success
             /\ r.error = "Unknown target"

\* An android action was forwarded, another was refused because the session
\* had lost its authentication before the model answered.
C14_Witness ==
    /\ \E r \in RouteCalls : r.target = "android" /\ r.success
    /\ \E r \in RouteCalls : r.target = "android" /\ ~r.success

Served(c) == { i \in DOMAIN clients[c].log : clients[c].log[i].ev = "served" }

(***************************************************************************)
(* C15: a connection's messages are decrypted and processed only after     *)
(* that same connection has sent a handshake with the bridge's session id; *)
(* a connection whose handshake named another sid is ended and none of its *)
(* messages are processed; also when another connection is authenticated.  *)
(***************************************************************************)
C15_OwnHandshakeFirst ==
    \A c \in BeamConns :
       \A i \in Served(c) :
          \E j \in 1..(i - 1) : clients[c].log[j].ev = "hs_ok"

(***************************************************************************)
(* The gateway process as a whole (app/main.py): startup, /ws traffic and  *)
(* tether chat requests against the one CURRENT_SESSION.                   *)
(***************************************************************************)
\* Frames received and chat requests answered so far.
GatewayTraffic == Len(tetherLog) + ws[1].rx

GwReceive(c) ==
    /\ GatewayTraffic < MaxFrames
    /\ WsReceive(c)

\* POST /api/tether/chat; what the inference server answers has no bearing
\* on the session, and it answers.
GwChat ==
    /\ GatewayTraffic < MaxFrames
    /\ TetherChatApp
    /\ tetherLog'[Len(tetherLog')].upstream \in {"ok", NoUpstream}

NextGateway ==
    \/ Startup
    \/ \E c \in Conns : WsConnect(c)
    \/ \E c \in Conns : GwReceive(c)
    \/ \E c \in Conns : WsSendChunk(c)
    \/ \E c \in Conns : WsDisconnect(c)
    \/ GwChat

SpecGateway == InitWs /\ [][NextGateway]_vars

C16_KeyPair ==
    CURRENT_SESSION.token = urlsafe_b64encode(CURRENT_SESSION.key_bytes)

C16_Unchanged ==
    /\ CURRENT_SESSION'.token = CURRENT_SESSION.token
    /\ CURRENT_SESSION'.key_bytes = CURRENT_SESSION.key_bytes

(***************************************************************************)
(* C16: the tether session key and token are generated once, when the      *)
(* process starts, and never change: after any sequence of startup,        *)
(* handshakes, chat requests and /ws traffic the token compared in         *)
(* handshakes and bearer checks and the key used for encryption are the    *)
(* pair generated at the start.                                            *)
(***************************************************************************)
C16_SessionFixed == []C16_KeyPair /\ [][C16_Unchanged]_vars

\* Startup has stored the detected address, a handshake was accepted and a
\* chat request was let through, both against the token.
C16_Witness ==
    /\ gwPhase = "serving"
    /\ CURRENT_SESSION.host_ip # "127.0.0.1"
    /\ \E i \in DOMAIN ws[1].log : ws[1].log[i].ev = "hs_ok"
    /\ \E i \in DOMAIN tetherLog : tetherLog[i].status = 200

(***************************************************************************)
(* SessionManager.ssh_command and cleanup: the connection cache            *)
(* (src/backend/neurobeam/session_manager.py, lines 169-197 and 230-235)   *)
(***************************************************************************)

\* The step in which cleanup ran: the cache held something and is now empty
CleanupStep == active_ssh # <<>> /\ active_ssh' = <<>>

\* What one step of a request may do to the cache and the connections
CacheStep(t) ==
    LET a == sshTask[t]
        b == sshTask'[t]
    IN  /\ (a.pc = "idle" /\ b.pc = "run") =>
              \* a hit: the cached session is the one that runs the command
              /\ b.sid \in DOMAIN sessions
              /\ KeyOf(sessions[b.sid]) \in DOMAIN active_ssh
              /\ active_ssh[KeyOf(sessions[b.sid])] = b.sid
              /\ sessions' = sessions
              /\ active_ssh' = active_ssh
        /\ (a.pc = "idle" /\ b.pc = "connect") =>
              \* a miss: a new session, not yet connected and not yet cached
              /\ Len(sessions') = Len(sessions) + 1
              /\ b.sid = Len(sessions')
              /\ sessions'[b.sid].conn = "none"
              /\ KeyOf(sessions'[b.sid]) \notin DOMAIN active_ssh
              /\ active_ssh' = active_ssh
        /\ (a.pc = "connect" /\ b.pc = "run") =>
              /\ sessions'[a.sid].conn = "open"
              /\ KeyOf(sessions[a.sid]) \in DOMAIN active_ssh'
              /\ active_ssh'[KeyOf(sessions[a.sid])] = a.sid
        /\ (a.pc = "connect" /\ b.pc = "idle") =>
              /\ b.result = "connect_failed"
              /\ sessions' = sessions
              /\ active_ssh' = active_ssh
        /\ (a.pc = "run" /\ b.pc = "idle") =>
              /\ sessions' = sessions
              /\ active_ssh' = active_ssh

\* C17: ssh_command runs its command on the session cached under
\* username@host:port when there is one and otherwise connects a new session,
\* caching it under that key on success and returning the error, uncached, on
\* failure; no command closes a connection or removes a cache entry; cleanup
\* closes every cached session and empties the cache.
C17_CacheStep ==
    /\ \A t \in Tasks : CacheStep(t)
    /\ CleanupStep => \A i \in Range(active_ssh) : sessions'[i].conn = "none"
    /\ \A i \in DOMAIN sessions :
         (sessions[i].conn = "open" /\ sessions'[i].conn # "open") => CleanupStep
    /\ (DOMAIN active_ssh \subseteq DOMAIN active_ssh') \/ CleanupStep

C17_SessionCache == [][C17_CacheStep]_vars

\* Both requests ran their command on the only connection ever made, which is
\* still open and cached under its key.
C17_Witness ==
    /\ Len(sessions) = 1
    /\ \A t \in Tasks : sshTask[t].pc = "idle" /\ sshTask[t].result = "ran"
                        /\ sshTask[t].sid = 1
    /\ sessions[1].conn = "open"
    /\ KeyOf(sessions[1]) \in DOMAIN active_ssh
    /\ active_ssh[KeyOf(sessions[1])] = 1

\* C18: every open connection is the one the cache holds under its key, so
\* that no key has two open connections and none is open unreferenced.
C18_OneConnectionPerKey ==
    \A i \in DOMAIN sessions :
        sessions[i].conn = "open" =>
            /\ KeyOf(sessions[i]) \in DOMAIN active_ssh
            /\ active_ssh[KeyOf(sessions[i])] = i

(***************************************************************************)
(* save_interaction, step 1: find or create the Conversation               *)
(* (src/backend/_archive/memory/memory_manager.py, lines 146-169)          *)
(***************************************************************************)

\* The store two concurrent first saves of (u1, d1) leave behind: each found
\* no Conversation and created its own (the state C20_Witness reaches).
RacedStore ==
    [convs |-> (1 :> [user_id |-> "u1", device_id |-> "d1", updated_at |-> 1])
               @@ (2 :> [user_id |-> "u1", device_id |-> "d1", updated_at |-> 2]),
     msgs |-> (1 :> [conversation_id |-> 1, content |-> TextPlain])
              @@ (2 :> [conversation_id |-> 2, content |-> TextTrivial]),
     mems |-> (1 :> [message_id |-> 1, tag |-> <<"note">>,
                     embedding |-> Embedding(TextPlain), retrieval_count |-> 0])
              @@ (2 :> [message_id |-> 2, tag |-> NoTag,
                        embedding |-> Embedding(TextTrivial), retrieval_count |-> 0]),
     hiMsg |-> 2, hiMem |-> 2]

MaxSerialSaves == 4

\* The saves run one after another, on an empty store or on the raced one.
InitSaves ==
    /\ JobsIdle
    /\ execLog = <<>>
    /\ RouterIdle
    /\ BridgeIdle
    /\ SessIdle
    /\ GwIdle
    /\ TetherIdle
    /\ BeamIdle
    /\ store \in {EmptyStore, RacedStore}
    /\ savers = [t \in Savers |-> IdleSaver]
    /\ night = IdleNight
    /\ recall = IdleRecall
    /\ returned = NoResult

\* A save that begins when no other save is in progress
SaveAlone(t) ==
    /\ \A u \in Savers : savers[u].pc = "idle"
    /\ MessagesBegun < MaxSerialSaves
    /\ Now <= MaxSerialSaves + 1
    /\ SaveOpen(t)

NextSaves ==
    \/ \E t \in Savers : SaveAlone(t)
    \/ \E t \in Savers : SaveCommit(t)

SpecSaves == InitSaves /\ [][NextSaves]_vars

\* The Conversations of the pair a row belongs to
OfPair(s, row) ==
    { c \in DOMAIN s.convs : /\ s.convs[c].user_id = row.user_id
                              /\ s.convs[c].device_id = row.device_id }

Timestamps(s) == { s.convs[c].updated_at : c \in DOMAIN s.convs }

C19_SaveStep ==
    \A t \in Savers :
      LET w == savers'[t]
          v == savers[t]
      IN
      /\ (savers[t].pc = "idle" /\ w.pc = "written" /\ w.result.asked = NoId) =>
           LET cid == w.result.conversation_id
               row == w.pend.convs[cid]
               cands == OfPair(store, row)
           IN  /\ cands # {} =>
                    /\ cid \in cands
                    /\ \A d \in cands :
                         store.convs[d].updated_at <= store.convs[cid].updated_at
               /\ cands = {} => cid \notin DOMAIN store.convs
               /\ w.pend.msgs[w.result.message_id].conversation_id = cid
               /\ \A ts \in Timestamps(store) : row.updated_at > ts
      /\ (v.pc = "written" /\ w.pc = "idle" /\ returned'.status = "ok") =>
           LET cid == v.result.conversation_id
               row == v.pend.convs[cid]
           IN  /\ store'.convs[cid] = row
               /\ store'.msgs[v.result.message_id].conversation_id = cid
               /\ \A ts \in Timestamps(store) : store'.convs[cid].updated_at > ts
               /\ Cardinality(OfPair(store', row)) > Cardinality(OfPair(store, row))
                    => OfPair(store, row) = {}

C19_OnePerPair ==
    \A c, d \in DOMAIN store.convs :
        (/\ store.convs[c].user_id = store.convs[d].user_id
         /\ store.convs[c].device_id = store.convs[d].device_id) => c = d

\* C19: a save without a conversation id attaches its message to the most
\* recently updated Conversation of its (user, device) pair and creates one
\* only when the pair has none; every committed save leaves its
\* Conversation's updated_at later than every timestamp before it; saves that
\* do not overlap never add a Conversation to a pair that has one, so from
\* an empty store each pair owns at most one.
C19_FindOrCreate ==
    /\ [][C19_SaveStep]_vars
    /\ (store = EmptyStore) => []C19_OnePerPair

\* Of two Conversations of one pair the older one was touched through its
\* id, and the next save without an id went to it.
C19_Witness ==
    /\ returned.call = "save" /\ returned.status = "ok"
    /\ returned.asked = NoId /\ returned.conversation_id = 1
    /\ {1, 2} \subseteq DOMAIN store.convs
    /\ OfPair(store, store.convs[1]) = {1, 2}
    /\ store.convs[1].updated_at > store.convs[2].updated_at
    /\ store.msgs[returned.message_id].conversation_id = 1

(***************************************************************************)
(* Concurrent first saves of one (user, device) pair                       *)
(***************************************************************************)

\* The save_interaction calls of two threads, interleaved at their commits
NextRace ==
    \/ \E t \in Savers : SaveBegin(t)
    \/ \E t \in Savers : SaveCommit(t)

SpecRace == InitMem /\ [][NextRace]_vars

\* A call that created its Conversation commits it: the call's Message is
\* attached to that Conversation and its SemanticMemory to that Message,
\* whatever Conversations the pair already has, and the rows other calls
\* committed stay as they were.
C20_CommitStep ==
    \A t \in Savers :
      LET v == savers[t]
          cid == v.result.conversation_id
      IN  (/\ v.pc = "written" /\ savers'[t].pc = "idle"
           /\ returned'.status = "ok"
           /\ cid \notin DOMAIN store.convs) =>
             /\ cid \in DOMAIN store'.convs
             /\ store'.msgs[v.result.message_id].conversation_id = cid
             /\ store'.mems[v.result.memory_id].message_id = v.result.message_id
             /\ \A c \in DOMAIN store.convs : store'.convs[c] = store.convs[c]
             /\ \A m \in DOMAIN store.msgs : store'.msgs[m] = store.msgs[m]
             /\ \A x \in DOMAIN store.mems : store'.mems[x] = store.mems[x]

\* C20: two saves that run concurrently as the first messages of a pair each
\* create a Conversation; each call's Message and SemanticMemory are
\* attached to the Conversation that call created.
C20_RaceKeepsRowsAttached == [][C20_CommitStep]_vars

\* Both calls committed: two Conversations of (u1, d1), each with the
\* Message and SemanticMemory of the call that created it.
C20_Witness ==
    /\ \A t \in Savers : savers[t].pc = "idle"
    /\ DOMAIN store.convs = {1, 2}
    /\ OfPair(store, store.convs[1]) = {1, 2}
    /\ DOMAIN store.msgs = {1, 2}
    /\ \A m \in {1, 2} : /\ store.msgs[m].conversation_id = m
                         /\ \E x \in DOMAIN store.mems : store.mems[x].message_id = m
    /\ returned.status = "ok"

(***************************************************************************)
(* Nightly routine, job 2: run_file_cleanup                                *)
(* (src/backend/_archive/memory/nightly_routine.py, lines 211-281)         *)
(***************************************************************************)

\* file_hash = None
NoHash == "null"

MaxAssets == 4

AssetIds == 1..MaxAssets

\* What a media_assets row and its file can be: the hash the upload stored
\* (or none) and the SHA-256 of the file at filepath, "gone" when there is
\* no such file.
AssetKinds ==
    { [file_hash |-> "h1", file |-> "h1"],
      [file_hash |-> "h1", file |-> "gone"],
      [file_hash |-> "h2", file |-> "h2"],
      [file_hash |-> NoHash, file |-> "h1"],
      [file_hash |-> NoHash, file |-> "gone"] }

\* created_at of the rows in the order the query returns them: ascending,
\* descending, and with equal timestamps
Clocks ==
    { [i \in AssetIds |-> i],
      [i \in AssetIds |-> MaxAssets + 1 - i],
      [i \in AssetIds |-> (i + 1) \div 2] }

\* A media store: rows by id, and the files of the media directory by path.
\* Every upload writes its own uuid-named file, so row i has path i.
MediaOf(kinds, clock, types) ==
    [rows |-> [i \in DOMAIN kinds |->
                  [filepath |-> i, file_hash |-> kinds[i].file_hash,
                   created_at |-> clock[i], media_type |-> types[i],
                   description |-> None]],
     files |-> [p \in { i \in DOMAIN kinds : kinds[i].file # "gone" } |->
                  kinds[p].file]]

IdleCleanup ==
    [pc |-> "idle", todo |-> <<>>, deleted |-> {}, unlinked |-> {},
     total_deleted |-> 0, failed |-> 0, outcome |-> ""]

InitCleanup ==
    /\ ApiIdle
    /\ execLog = <<>>
    /\ SessIdle /\ GwIdle /\ TetherIdle /\ BeamIdle /\ MemIdle
    /\ RouterIdle /\ BridgeIdle
    /\ \E n \in {0, MaxAssets} :
         \E kinds \in [1..n -> AssetKinds], clock \in Clocks :
            media = MediaOf(kinds, clock, [i \in 1..n |-> "image"])
    /\ cleanup = IdleCleanup
    /\ cortex = <<>>
    /\ nightly = <<>>
    /\ upload = <<>>
    /\ brain = <<>>

cleanupOthers == <<coreVars, memVars, cortex, nightly, upload, brain>>

\* hashlib.sha256 over the file (lines 236-241): rows without a stored hash
\* whose file exists get the file's hash
WithHashes(rows, files) ==
    [i \in DOMAIN rows |->
        IF rows[i].file_hash = NoHash /\ rows[i].filepath \in DOMAIN files
        THEN [rows[i] EXCEPT !.file_hash = files[rows[i].filepath]]
        ELSE rows[i]]

\* hash_groups[asset.file_hash]: the rows of one hash, in query order
RECURSIVE GroupOf(_, _, _)
GroupOf(rows, ids, h) ==
    IF ids = <<>> THEN <<>>
    ELSE IF rows[Head(ids)].file_hash = h
         THEN <<Head(ids)>> \o GroupOf(rows, Tail(ids), h)
         ELSE GroupOf(rows, Tail(ids), h)

\* The keys of hash_groups in insertion order
RECURSIVE HashKeys(_, _, _)
HashKeys(rows, ids, seen) ==
    IF ids = <<>> THEN <<>>
    ELSE LET h == rows[Head(ids)].file_hash IN
         IF h = NoHash \/ h \in seen THEN HashKeys(rows, Tail(ids), seen)
         ELSE <<h>> \o HashKeys(rows, Tail(ids), seen \cup {h})

\* list.sort is stable: x goes after the entries that are not later than it
RECURSIVE InsertByCreated(_, _, _)
InsertByCreated(rows, sorted, x) ==
    IF sorted = <<>> THEN <<x>>
    ELSE IF rows[Head(sorted)].created_at <= rows[x].created_at
         THEN <<Head(sorted)>> \o InsertByCreated(rows, Tail(sorted), x)
         ELSE <<x>> \o sorted

\* A plausible slip: the group is left in query order.
Unsorted(rows, group) == group

\* group.sort(key=lambda a: a.created_at ...) (line 258)
RECURSIVE SortByCreated(_, _)
SortByCreated(rows, group) ==
    IF group = <<>> THEN <<>>
    ELSE InsertByCreated(rows,
            SortByCreated(rows, SubSeq(group, 1, Len(group) - 1)),
            group[Len(group)])

\* The ids of a set in ascending order: the order the query returns the rows
RECURSIVE Ascending(_)
Ascending(S) ==
    IF S = {} THEN <<>>
    ELSE LET m == CHOOSE x \in S : \A y \in S : x <= y
         IN  <<m>> \o Ascending(S \ {m})

\* The duplicates in the order the two loops reach them (lines 253-272):
\* for each group of more than one row, all but the first after sorting
RECURSIVE Duplicates(_, _)
Duplicates(rows, keys) ==
    IF keys = <<>> THEN <<>>
    ELSE LET group == GroupOf(rows, Ascending(DOMAIN rows), Head(keys))
             rest == Duplicates(rows, Tail(keys))
         IN  IF Len(group) <= 1 THEN rest
             ELSE Tail(SortByCreated(rows, group)) \o rest

\* Lines 225-248: the rows are loaded, missing hashes computed and
\* committed, and the groups built.  An exception anywhere ends the pass in
\* the except clause with a rollback.
CleanupScan ==
    /\ cleanup.pc = "idle" /\ cleanup.outcome = ""
    /\ \E fails \in {"none", "query", "hash", "commit"} :
         LET hashed == WithHashes(media.rows, media.files)
             needs == hashed # media.rows
         IN
         IF \/ fails = "query"
            \/ fails = "hash" /\ needs
            \/ fails = "commit" /\ DOMAIN media.rows # {}
         THEN /\ cleanup' = [IdleCleanup EXCEPT !.outcome = "error"]
              /\ media' = media
         ELSE IF DOMAIN media.rows = {}
         THEN /\ cleanup' = [IdleCleanup EXCEPT !.outcome = "skipped"]
              /\ media' = media
         ELSE /\ media' = [media EXCEPT !.rows = hashed]
              /\ cleanup' = [IdleCleanup EXCEPT !.pc = "deleting",
                    !.todo = Duplicates(hashed,
                                HashKeys(hashed, Ascending(DOMAIN hashed), {}))]
    /\ UNCHANGED cleanupOthers

\* One duplicate (lines 262-272): its file is unlinked when it exists and
\* its row deleted in the session.  unlink may raise; the except clause
\* rolls the session back and the pass ends.
CleanupDelete ==
    /\ cleanup.pc = "deleting" /\ cleanup.todo # <<>>
    /\ \E raises \in BOOLEAN :
         LET dup == Head(cleanup.todo)
             dup_path == media.rows[dup].filepath
         IN
         IF raises
         THEN /\ dup_path \in DOMAIN media.files
              /\ cleanup' = [cleanup EXCEPT !.pc = "idle", !.todo = <<>>,
                                !.deleted = {}, !.failed = dup,
                                !.outcome = "error"]
              /\ media' = media
         ELSE /\ media' = [media EXCEPT !.files =
                    [p \in DOMAIN media.files \ {dup_path} |-> media.files[p]]]
              /\ cleanup' = [cleanup EXCEPT !.todo = Tail(cleanup.todo),
                    !.deleted = cleanup.deleted \cup {dup},
                    !.unlinked = IF dup_path \in DOMAIN media.files
                                 THEN cleanup.unlinked \cup {dup}
                                 ELSE cleanup.unlinked,
                    !.total_deleted = cleanup.total_deleted + 1]
    /\ UNCHANGED cleanupOthers

\* session.commit() after the loops (line 274), or its failure
CleanupCommit ==
    /\ cleanup.pc = "deleting" /\ cleanup.todo = <<>>
    /\ \E raises \in BOOLEAN :
         IF raises
         THEN /\ cleanup' = [cleanup EXCEPT !.pc = "idle", !.deleted = {},
                                            !.outcome = "error"]
              /\ media' = media
         ELSE /\ cleanup' = [cleanup EXCEPT !.pc = "idle", !.deleted = {},
                                            !.outcome = "complete"]
              /\ media' = [media EXCEPT !.rows =
                    [i \in DOMAIN media.rows \ cleanup.deleted |-> media.rows[i]]]
    /\ UNCHANGED cleanupOthers

NextCleanup == CleanupScan \/ CleanupDelete \/ CleanupCommit

SpecCleanup == InitCleanup /\ [][NextCleanup]_vars

\* The rows sharing the hash of row i
HashGroup(rows, i) ==
    { j \in DOMAIN rows : rows[j].file_hash = rows[i].file_hash }

\* The ids whose row has a hash that other rows share
InSharedGroup(rows) ==
    { i \in DOMAIN rows : /\ rows[i].file_hash # NoHash
                          /\ Cardinality(HashGroup(rows, i)) > 1 }

Earliest(rows, k) ==
    \A j \in HashGroup(rows, k) : rows[k].created_at <= rows[j].created_at

\* A pass that ends with its commit
CleanupCompletes ==
    cleanup.pc = "deleting" /\ cleanup'.pc = "idle" /\ cleanup'.outcome = "complete"

C21_CleanupStep ==
    \* a file leaves the disk only as a duplicate the pass unlinked
    /\ \A p \in DOMAIN media.files \ DOMAIN media'.files :
         \E d \in cleanup'.unlinked : media.rows[d].filepath = p
    \* hashing writes nothing but the missing hash of a row whose file exists
    /\ (cleanup.pc = "idle" /\ cleanup'.pc = "deleting") =>
         /\ media'.files = media.files
         /\ DOMAIN media'.rows = DOMAIN media.rows
         /\ \A i \in DOMAIN media.rows :
              IF media.rows[i].file_hash = NoHash
                 /\ media.rows[i].filepath \in DOMAIN media.files
              THEN media'.rows[i] = [media.rows[i] EXCEPT
                                       !.file_hash = media.files[media.rows[i].filepath]]
              ELSE media'.rows[i] = media.rows[i]
    /\ CleanupCompletes =>
         LET rows == media.rows
             left == DOMAIN media'.rows
         IN  /\ left \subseteq DOMAIN rows
             /\ \A i \in left : media'.rows[i] = rows[i]
             /\ \A i \in InSharedGroup(rows) :
                  \E k \in HashGroup(rows, i) :
                     /\ HashGroup(rows, i) \cap left = {k}
                     /\ Earliest(rows, k)
                     /\ k \notin cleanup'.unlinked
                     /\ \A d \in HashGroup(rows, i) \ {k} :
                          rows[d].filepath \notin DOMAIN media'.files
             /\ \A i \in DOMAIN rows \ InSharedGroup(rows) :
                  i \in left /\ i \notin cleanup'.unlinked

CleanupEnds == cleanup.pc = "deleting" /\ cleanup'.pc = "idle"

\* C22: however the pass ends, the earliest row of every hash group and its
\* file are still there, and every duplicate whose file the pass deleted
\* has lost its row too.
C22_PassEnd ==
    CleanupEnds =>
      /\ \A i \in DOMAIN media.rows :
           (\A j \in HashGroup(media.rows, i) \ {i} :
               media.rows[i].created_at < media.rows[j].created_at) =>
             /\ i \in DOMAIN media'.rows
             /\ i \notin cleanup'.unlinked
      /\ \A d \in cleanup'.unlinked : d \notin DOMAIN media'.rows

C22_NoRowWithoutFile == [][C22_PassEnd]_vars

\* C23: when deleting a duplicate fails, every group the failing duplicate
\* does not belong to is deduplicated in the same pass.
C23_PassEnd ==
    (CleanupEnds /\ cleanup'.failed # 0) =>
      \A i \in InSharedGroup(media.rows) :
         cleanup'.failed \notin HashGroup(media.rows, i) =>
           Cardinality(HashGroup(media.rows, i) \cap DOMAIN media'.rows) = 1

C23_OtherGroupsDeduplicated == [][C23_PassEnd]_vars

(***************************************************************************)
(* The Cortex Worker: CortexWorker.run_loop, run_once and process_asset    *)
(* (src/backend/_archive/memory/cortex_worker.py, lines 259-391)           *)
(***************************************************************************)

\* _get_unprocessed_assets(batch_size=5)
batch_size == 5

MaxQueued == 2

\* POLL_INTERVAL_SECONDS, in the 1-second steps of the sleep loop
PollInterval == 2

\* The assets waiting for the worker: an image with its file, an audio
\* recording whose file is gone, and a row of a type the worker does not know
QueuedKinds ==
    { [file_hash |-> "h1", file |-> "h1", media_type |-> "image"],
      [file_hash |-> "h2", file |-> "gone", media_type |-> "audio"],
      [file_hash |-> "h2", file |-> "h2", media_type |-> "video"] }

\* What the caption or transcription call does: raises, or returns a text
EngineOutcomes == {"raises", "text"}

Caption == <<"c","a","t">>

IdleCortex ==
    [pc |-> "poll", batch |-> <<>>, i |-> 0, description |-> None,
     updated |-> FALSE, processed |-> 0, sleep |-> 0, shutdown |-> FALSE]

InitCortex ==
    /\ ApiIdle
    /\ execLog = <<>>
    /\ SessIdle /\ GwIdle /\ TetherIdle /\ BeamIdle
    /\ RouterIdle /\ BridgeIdle
    /\ store = EmptyStore
    /\ savers = [t \in Savers |-> IdleSaver]
    /\ night = IdleNight
    /\ recall = IdleRecall
    /\ returned = NoResult
    /\ \E n \in 0..MaxQueued :
         \E kinds \in [1..n -> QueuedKinds] :
            media = MediaOf(kinds, [i \in 1..n |-> i],
                            [i \in 1..n |-> kinds[i].media_type])
    /\ cleanup = <<>>
    /\ cortex = IdleCortex
    /\ nightly = <<>>
    /\ upload = <<>>
    /\ brain = <<>>

cortexOthers == <<coreVars, savers, night, recall, returned,
                  cleanup, nightly, upload, brain>>

\* .filter(MediaAsset.description.is_(None)).limit(batch_size).all()
_get_unprocessed_assets(rows) ==
    LET found == Ascending({ i \in DOMAIN rows : rows[i].description = None })
    IN  SubSeq(found, 1, IF Len(found) < batch_size THEN Len(found) ELSE batch_size)

\* A plausible slip: the file is not looked for before it is opened, and
\* the handler lets the missing file pass as an empty description.
ProcessWithoutFileCheck(asset, files, engine) ==
    IF asset.media_type \in {"image", "audio"} /\ engine # "raises"
    THEN (IF asset.filepath \notin DOMAIN files THEN <<>> ELSE Caption)
    ELSE None

\* process_asset (lines 292-327): the description, or None
process_asset(asset, files, engine) ==
    IF asset.filepath \notin DOMAIN files THEN None
    ELSE IF asset.media_type \in {"image", "audio"}
    THEN (IF engine = "raises" THEN None ELSE Caption)
    ELSE None

\* A plausible slip: the description is only written with the vector.
UpdateDeferred(rows, asset_id, description) == rows

\* _update_asset_description (lines 275-290), when its commit succeeds
_update_asset_description(rows, asset_id, description) ==
    IF asset_id \in DOMAIN rows
    THEN [rows EXCEPT ![asset_id].description = description]
    ELSE rows

\* asset.media_type.upper() in brackets
TypeLabel(media_type) ==
    CASE media_type = "image" -> <<"[","I","M","A","G","E","]">>
      [] media_type = "audio" -> <<"[","A","U","D","I","O","]">>
      [] OTHER -> <<"[","?","]">>

\* The arguments of the save_interaction call of run_once (lines 355-361)
VectorArgs(asset, description) ==
    [user_id |-> "cortex_worker", device_id |-> "cortex",
     text |-> TypeLabel(asset.media_type) \o <<" ","f">> \o <<":"," ">> \o description,
     tag |-> <<"media_">> \o <<asset.media_type>>,
     conversation_id |-> NoId]

\* A plausible slip: the flag is read once, when the loop starts.
ShutdownAtStart(c) == FALSE

\* `if _shutdown` / `while not _shutdown`
ShutdownSeen(c) == c.shutdown

\* _signal_handler (lines 49-52): SIGINT or SIGTERM arrives
CortexSignal ==
    /\ cortex.pc # "stopped" /\ ~cortex.shutdown
    /\ cortex' = [cortex EXCEPT !.shutdown = TRUE]
    /\ UNCHANGED <<media, store, cortexOthers>>

\* The top of the while loop of run_loop (line 377) and the start of
\* run_once (lines 331-339); a failing query is caught at line 382.
CortexPoll ==
    /\ cortex.pc = "poll"
    /\ IF ShutdownSeen(cortex)
       THEN cortex' = [cortex EXCEPT !.pc = "stopped"]
       ELSE \E raises \in BOOLEAN :
              LET assets == _get_unprocessed_assets(media.rows) IN
              cortex' =
                IF raises \/ assets = <<>>
                THEN [cortex EXCEPT !.pc = "sleep", !.sleep = PollInterval,
                                    !.batch = <<>>, !.i = 0]
                ELSE [cortex EXCEPT !.pc = "asset", !.batch = assets, !.i = 1]
    /\ UNCHANGED <<media, store, cortexOthers>>

\* The head of the for loop and process_asset (lines 341-347)
CortexProcess ==
    /\ cortex.pc = "asset"
    /\ IF cortex.i > Len(cortex.batch)
       THEN cortex' = [cortex EXCEPT !.pc = "sleep", !.sleep = PollInterval,
                                     !.batch = <<>>, !.i = 0, !.processed = 0]
       ELSE IF ShutdownSeen(cortex)
       THEN cortex' = [cortex EXCEPT !.pc = "sleep", !.sleep = PollInterval,
                                     !.processed = 0]
       ELSE \E engine \in EngineOutcomes :
              LET description == process_asset(media.rows[cortex.batch[cortex.i]],
                                               media.files, engine)
              IN  cortex' =
                    IF description = None
                    THEN [cortex EXCEPT !.i = cortex.i + 1, !.description = None]
                    ELSE [cortex EXCEPT !.pc = "update", !.description = description]
    /\ UNCHANGED <<media, store, cortexOthers>>

\* Step 1 of run_once (line 350): the description is committed in a session
\* of its own, or the failure is logged inside _update_asset_description
CortexUpdate ==
    /\ cortex.pc = "update"
    /\ \E fails \in BOOLEAN :
         IF fails
         THEN /\ media' = media
              /\ cortex' = [cortex EXCEPT !.pc = "vectorize", !.updated = FALSE]
         ELSE /\ media' = [media EXCEPT !.rows =
                    _update_asset_description(media.rows, cortex.batch[cortex.i],
                                              cortex.description)]
              /\ cortex' = [cortex EXCEPT !.pc = "vectorize", !.updated = TRUE]
    /\ UNCHANGED <<store, cortexOthers>>

\* Step 2 of run_once (lines 354-364): save_interaction, or its exception
\* logged; the store takes new messages while MaySave allows
CortexVectorize ==
    /\ cortex.pc = "vectorize"
    /\ \E fails \in BOOLEAN :
         IF fails
         THEN /\ store' = store
              /\ cortex' = [cortex EXCEPT !.pc = "asset", !.i = cortex.i + 1,
                                          !.description = None, !.updated = FALSE]
         ELSE /\ MaySave
              /\ store' = SaveWhole(VectorArgs(media.rows[cortex.batch[cortex.i]],
                                               cortex.description), Now)
              /\ cortex' = [cortex EXCEPT !.pc = "asset", !.i = cortex.i + 1,
                                          !.description = None, !.updated = FALSE,
                                          !.processed = cortex.processed + 1]
    /\ UNCHANGED <<media, cortexOthers>>

\* The sleep loop of run_loop (lines 385-389)
CortexSleep ==
    /\ cortex.pc = "sleep"
    /\ cortex' =
         IF cortex.sleep = 0 \/ ShutdownSeen(cortex)
         THEN [cortex EXCEPT !.pc = "poll", !.sleep = 0]
         ELSE [cortex EXCEPT !.sleep = cortex.sleep - 1]
    /\ UNCHANGED <<media, store, cortexOthers>>

CortexStep ==
    CortexPoll \/ CortexProcess \/ CortexUpdate \/ CortexVectorize \/ CortexSleep

NextCortex == CortexSignal \/ CortexStep

SpecCortex == InitCortex /\ [][NextCortex]_vars

\* The worker's thread keeps running: every call it makes returns.
SpecCortexFair == SpecCortex /\ WF_vars(CortexStep)

\* The asset the for loop is at
CurrentAsset == media.rows[cortex.batch[cortex.i]]

\* The loop is about to hand an asset to process_asset
AtAsset ==
    cortex.pc = "asset" /\ cortex.i <= Len(cortex.batch) /\ ~cortex.shutdown

C24_SkipStep ==
    /\ (AtAsset /\ cortex'.shutdown = cortex.shutdown) =>
         /\ (\/ CurrentAsset.filepath \notin DOMAIN media.files
             \/ CurrentAsset.media_type \notin {"image", "audio"})
              => cortex'.description = None
         /\ cortex'.description = None =>
              /\ cortex'.pc = "asset" /\ cortex'.i = cortex.i + 1
              /\ media' = media
              /\ store' = store
    \* a later pass finds every asset whose description is still null
    /\ (cortex.pc = "poll" /\ cortex'.pc = "asset") =>
         \A a \in DOMAIN media.rows :
            (media.rows[a].description = None
             /\ Cardinality(DOMAIN media.rows) <= batch_size)
              => a \in Range(cortex'.batch)

\* C24: an asset whose file is missing, whose type is unknown or whose
\* captioning or transcription raises gets no description: nothing is
\* raised, its row keeps description null, nothing is written to the memory
\* store, the loop goes on to the next asset, and the next pass selects the
\* asset again.
C24_FailedAssetSkipped == [][C24_SkipStep]_vars

\* A later pass: the batch holds only the asset whose file is gone, after
\* an earlier pass described and vectorized the other asset.
C24_Witness ==
    /\ cortex.pc = "asset" /\ Len(cortex.batch) = 1
    /\ \E a \in Range(cortex.batch) :
         /\ media.rows[a].filepath \notin DOMAIN media.files
         /\ media.rows[a].description = None
    /\ \E b \in DOMAIN media.rows : media.rows[b].description = Caption
    /\ DOMAIN store.msgs # {}

C25_ShutdownStep ==
    (cortex.shutdown /\ cortex'.shutdown) =>
      \* the asset in hand is finished
      /\ cortex.pc = "update" => cortex'.pc = "vectorize"
      /\ cortex.pc = "vectorize" => cortex'.pc = "asset" /\ cortex'.i = cortex.i + 1
      \* no further asset is started
      /\ cortex.pc = "asset" => cortex'.pc = "sleep" /\ media' = media /\ store' = store
      \* the sleep ends at its next step, and no further pass begins
      /\ cortex.pc = "sleep" => cortex'.pc = "poll"
      /\ cortex.pc = "poll" => cortex'.pc = "stopped"
      /\ cortex.pc \notin {"update", "vectorize"} => media' = media /\ store' = store

\* C25: once _shutdown is set the asset being processed is finished, no
\* other asset of the batch is started, no further pass begins, and
\* run_loop ends.
C25_GracefulShutdown ==
    /\ [][C25_ShutdownStep]_vars
    /\ (cortex.shutdown ~> cortex.pc = "stopped")

\* The worker stopped in mid-batch: the first asset is described and
\* vectorized, the second, an image whose file exists, was never started.
C25_Witness ==
    /\ cortex.pc = "stopped" /\ cortex.shutdown
    /\ Len(cortex.batch) = 2 /\ cortex.i = 2
    /\ media.rows[1].description = Caption
    /\ DOMAIN store.msgs # {}
    /\ media.rows[2].description = None
    /\ media.rows[2].filepath \in DOMAIN media.files
    /\ media.rows[2].media_type = "image"

C26_VectorStep ==
    \* the description is committed before save_interaction is called
    /\ cortex.pc = "update" =>
         /\ store' = store
         /\ cortex'.shutdown = cortex.shutdown =>
              /\ cortex'.pc = "vectorize"
              /\ cortex'.updated =>
                   /\ media'.rows[cortex.batch[cortex.i]].description = cortex.description
                   /\ \A a \in DOMAIN media.rows \ {cortex.batch[cortex.i]} :
                        media'.rows[a] = media.rows[a]
    \* whatever save_interaction does, the row keeps its description and the
    \* loop goes on
    /\ (cortex.pc = "vectorize" /\ cortex'.shutdown = cortex.shutdown) =>
         /\ media' = media
         /\ cortex'.pc = "asset" /\ cortex'.i = cortex.i + 1
         /\ cortex.updated => CurrentAsset.description # None
    \* a described asset is not selected again
    /\ (cortex.pc = "poll" /\ cortex'.pc = "asset") =>
         \A a \in Range(cortex'.batch) : media.rows[a].description = None

PruneStep == night.pc = "summarised" /\ night'.outcome = "pruned"

\* C27: a run of the consolidation job whose summary came back empty saves
\* no summary and prunes nothing; so whenever trivial messages are pruned,
\* the store holds a daily summary.
C27_PruneNeedsSummary ==
    PruneStep => \E x \in DOMAIN store.mems : store.mems[x].tag = <<"daily_summary">>

C27_EmptyResultSkipsRest == [][C27_PruneNeedsSummary]_vars

(***************************************************************************)
(* The nightly run: run_all_jobs and run_dreaming                          *)
(* (src/backend/_archive/memory/nightly_routine.py, lines 288-375)         *)
(***************************************************************************)

\* The store at 3 AM: empty, or one conversation with one trivial message
TrivialStore ==
    [convs |-> (1 :> [user_id |-> "u1", device_id |-> "d1", updated_at |-> 1]),
     msgs |-> (1 :> [conversation_id |-> 1, content |-> TextTrivial]),
     mems |-> (1 :> [message_id |-> 1, tag |-> NoTag,
                     embedding |-> Embedding(TextTrivial), retrieval_count |-> 0]),
     hiMsg |-> 1, hiMem |-> 1]

\* The media at 3 AM: none, or rows on copies of one file
NightMedia ==
    { MediaOf(<<>>, <<>>, <<>>) } \cup
    { MediaOf([i \in 1..MaxQueued |-> [file_hash |-> "h1", file |-> "h1"]],
              [i \in 1..MaxQueued |-> i], [i \in 1..MaxQueued |-> "image"]) }

JobOrder == <<"consolidation", "cleanup", "dreaming">>

StartNightly == [pc |-> "start", ran |-> <<>>, fatal |-> FALSE]

InitNightly ==
    /\ ApiIdle
    /\ execLog = <<>>
    /\ SessIdle /\ GwIdle /\ TetherIdle /\ BeamIdle
    /\ RouterIdle /\ BridgeIdle
    /\ store \in {EmptyStore, TrivialStore}
    /\ savers = [t \in Savers |-> IdleSaver]
    /\ night = IdleNight
    /\ recall = IdleRecall
    /\ returned = NoResult
    /\ media \in NightMedia
    /\ cleanup = IdleCleanup
    /\ cortex = <<>>
    /\ nightly = StartNightly
    /\ upload = <<>>
    /\ brain = <<>>

\* A plausible slip: a job that failed ends the run.
AfterJobUnlessFailed(job, outcome) ==
    IF outcome = "error" THEN "done"
    ELSE IF job = "consolidation" THEN "cleanup"
    ELSE IF job = "cleanup" THEN "dreaming" ELSE "done"

\* The statement run_all_jobs goes to when a job returns (lines 367-369):
\* every job catches its own exceptions, so the next call follows
AfterJob(job, outcome) ==
    IF job = "consolidation" THEN "cleanup"
    ELSE IF job = "cleanup" THEN "dreaming" ELSE "done"

Returned(job, outcome) ==
    [nightly EXCEPT !.pc = AfterJob(job, outcome),
                    !.ran = Append(nightly.ran, [job |-> job, outcome |-> outcome])]

\* MemoryManager(database_url=...) (line 365): the embedding model loads, or
\* the exception goes to the except clause of run_all_jobs
NightlyStart ==
    /\ nightly.pc = "start"
    /\ \E raises \in BOOLEAN :
         nightly' = IF raises THEN [nightly EXCEPT !.pc = "done", !.fatal = TRUE]
                    ELSE [nightly EXCEPT !.pc = "consolidation"]
    /\ UNCHANGED <<coreVars, memVars, media, cleanup, cortex, upload, brain>>

\* run_consolidation(mm), step by step
NightlyConsolidation ==
    /\ nightly.pc = "consolidation" /\ night.outcome = ""
    /\ (NightGather \/ NightSummary \/ NightPrune)

NightlyConsolidated ==
    /\ nightly.pc = "consolidation" /\ night.pc = "idle" /\ night.outcome # ""
    /\ nightly' = Returned("consolidation", night.outcome)
    /\ UNCHANGED <<coreVars, memVars, media, cleanup, cortex, upload, brain>>

\* run_file_cleanup(), step by step
NightlyCleanup ==
    /\ nightly.pc = "cleanup"
    /\ NextCleanup

NightlyCleaned ==
    /\ nightly.pc = "cleanup" /\ cleanup.pc = "idle" /\ cleanup.outcome # ""
    /\ nightly' = Returned("cleanup", cleanup.outcome)
    /\ UNCHANGED <<coreVars, memVars, media, cleanup, cortex, upload, brain>>

DreamPrefix == <<"[","D","r","e","a","m"," ","I","n","s","i","g","h","t","s","]","\n">>

\* run_dreaming(mm) (lines 288-347): the most retrieved memories, the
\* insights call, and the save; every exception is caught and logged
NightlyDreaming ==
    /\ nightly.pc = "dreaming"
    /\ \E fails \in {"none", "query", "save"}, insights \in LlamaOutputs :
         LET top_memories == { x \in DOMAIN store.mems :
                                 store.mems[x].message_id \in DOMAIN store.msgs }
         IN
         IF fails = "query"
         THEN /\ nightly' = Returned("dreaming", "error")
              /\ store' = store
         ELSE IF top_memories = {}
         THEN /\ nightly' = Returned("dreaming", "skipped")
              /\ store' = store
         ELSE IF insights = <<>>
         THEN /\ nightly' = Returned("dreaming", "empty")
              /\ store' = store
         ELSE IF fails = "save"
         THEN /\ nightly' = Returned("dreaming", "error")
              /\ store' = store
         ELSE /\ MaySave
              /\ nightly' = Returned("dreaming", "saved")
              /\ store' = SaveWhole([user_id |-> "system",
                                     device_id |-> "nightly_routine",
                                     text |-> DreamPrefix \o insights,
                                     tag |-> <<"insight">>,
                                     conversation_id |-> NoId], Now)
    /\ UNCHANGED <<coreVars, savers, night, recall, returned, media, cleanup,
                   cortex, upload, brain>>

NextNightly ==
    \/ NightlyStart
    \/ NightlyConsolidation
    \/ NightlyConsolidated
    \/ NightlyCleanup
    \/ NightlyCleaned
    \/ NightlyDreaming

SpecNightly == InitNightly /\ [][NextNightly]_vars

\* The jobs that have returned are the first jobs of the order, in order
C28_InOrder ==
    /\ Len(nightly.ran) <= 3
    /\ \A i \in DOMAIN nightly.ran : nightly.ran[i].job = JobOrder[i]
    /\ (nightly.pc = "done" /\ ~nightly.fatal) => Len(nightly.ran) = 3
    /\ nightly.pc \in {"consolidation", "cleanup", "dreaming"} =>
         nightly.pc = JobOrder[Len(nightly.ran) + 1]

\* A job that returns, failed or not, is followed by the next job
C28_JobReturns ==
    Len(nightly'.ran) = Len(nightly.ran) + 1 =>
      nightly'.pc = IF Len(nightly'.ran) = 3 THEN "done"
                    ELSE JobOrder[Len(nightly'.ran) + 1]

\* C28: one run executes consolidation, file cleanup and dreaming in that
\* order; a job that ends in an error is followed by the later jobs, and
\* the run reaches its end.
C28_RunAllJobs == []C28_InOrder /\ [][C28_JobReturns]_vars

\* Consolidation and cleanup both failed, dreaming still ran and saved its
\* insights, and the run is over.
C28_Witness ==
    /\ nightly.pc = "done" /\ Len(nightly.ran) = 3
    /\ nightly.ran[1].outcome = "error"
    /\ nightly.ran[2].outcome = "error"
    /\ nightly.ran[3].outcome = "saved"

(***************************************************************************)
(* Media upload: upload_media (src/backend/memory/server.py, lines 193-255)*)
(* The handler runs only after startup() has set _db_session_factory, so   *)
(* the 503 branch of lines 201-202 is not taken by a served request.       *)
(***************************************************************************)

MaxUploads == 2


ContentTypes ==
    { <<"i","m","a","g","e","/","p","n","g">>,
      <<"a","u","d","i","o","/","w","a","v">>,
      <<"v","i","d","e","o","/","m","p","4">>,
      <<"i","m","a","g","e">>,
      <<>> }

\* The request body as the chunks file.read(1024 * 64) returns
Bodies == { <<>>, <<"a">>, <<"a", "b">> }

\* hashlib.sha256 over the chunks
Sha256(chunks) == <<"sha256">> \o chunks

\* Lines 205-215: the media type of a declared content type, None for 400
MediaTypeOf(content_type) ==
    IF StartsWith(content_type, <<"i","m","a","g","e","/">>) THEN "image"
    ELSE IF StartsWith(content_type, <<"a","u","d","i","o","/">>) THEN "audio"
    ELSE "none"

IdleUpload ==
    [pc |-> "idle", media_type |-> "none", save_path |-> 0, rest |-> <<>>,
     sha256 |-> <<>>, status |-> 0, requests |-> 0]

InitUpload ==
    /\ ApiIdle
    /\ execLog = <<>>
    /\ SessIdle /\ GwIdle /\ TetherIdle /\ BeamIdle /\ MemIdle
    /\ RouterIdle /\ BridgeIdle
    /\ media = [rows |-> <<>>, files |-> <<>>]
    /\ upload = IdleUpload
    /\ cleanup = <<>>
    /\ cortex = <<>>
    /\ nightly = <<>>
    /\ brain = <<>>

uploadOthers == <<coreVars, memVars, cleanup, cortex, nightly, brain>>

\* Lines 204-224: the type check, the unique name, and aiofiles.open(.., "wb")
\* which creates the empty file
UploadRequest ==
    /\ upload.pc = "idle"
    /\ upload.requests < MaxUploads
    /\ \E content_type \in ContentTypes, body \in Bodies :
         LET media_type == MediaTypeOf(content_type)
             save_path == upload.requests + 1
         IN
         IF media_type = "none"
         THEN /\ upload' = [IdleUpload EXCEPT !.status = 400,
                                              !.requests = upload.requests + 1]
              /\ media' = media
         ELSE /\ upload' = [pc |-> "writing", media_type |-> media_type,
                            save_path |-> save_path, rest |-> body,
                            sha256 |-> <<>>, status |-> 0,
                            requests |-> upload.requests + 1]
              /\ media' = [media EXCEPT !.files = save_path :> <<>> @@ @]
    /\ UNCHANGED uploadOthers

\* Lines 225-227: one turn of the while loop; f.write may raise (disk full,
\* I/O error), the exception leaves the handler and the server answers 500
UploadWrite ==
    /\ upload.pc = "writing"
    /\ IF upload.rest = <<>>
       THEN /\ upload' = [upload EXCEPT !.pc = "insert"]
            /\ media' = media
       ELSE \E raises \in BOOLEAN :
              IF raises
              THEN /\ upload' = [IdleUpload EXCEPT !.status = 500,
                                                   !.requests = upload.requests]
                   /\ media' = media
              ELSE /\ upload' = [upload EXCEPT
                                   !.rest = Tail(@),
                                   !.sha256 = Append(@, Head(upload.rest))]
                   /\ media' = [media EXCEPT
                                  !.files[upload.save_path] =
                                      Append(@, Head(upload.rest))]
    /\ UNCHANGED uploadOthers

\* Lines 231-255: add and commit the row, then build the reply (reading
\* asset.id after the commit reloads the expired row); any exception rolls
\* back, unlinks the file and answers 500
UploadInsert ==
    /\ upload.pc = "insert"
    /\ \E fails \in {"none", "commit", "reload"} :
         LET row == [filepath |-> upload.save_path,
                     file_hash |-> Sha256(upload.sha256),
                     created_at |-> upload.requests,
                     media_type |-> upload.media_type,
                     description |-> None]
             rows == IF fails = "commit" THEN media.rows
                     ELSE Append(media.rows, row)
             files == IF fails = "none" THEN media.files
                      ELSE Without(media.files, {upload.save_path})
         IN
         /\ media' = [rows |-> rows, files |-> files]
         /\ upload' = [IdleUpload EXCEPT
                         !.status = IF fails = "none" THEN 200 ELSE 500,
                         !.requests = upload.requests]
    /\ UNCHANGED uploadOthers

NextUpload ==
    \/ UploadRequest
    \/ UploadWrite
    \/ UploadInsert

SpecUpload == InitUpload /\ [][NextUpload]_vars

HasRow(p) == \E i \in DOMAIN media.rows : media.rows[i].filepath = p

\* A request refused with 400 wrote no file
C29_RejectedWritesNothing ==
    (upload.pc = "idle" /\ upload'.status = 400) => media'.files = media.files

\* A failed insert leaves neither the file nor, when the commit failed, a row
C29_FailedInsertUnlinks ==
    (upload.pc = "insert" /\ upload'.status = 500) =>
       upload.save_path \notin DOMAIN media'.files

C29_Parts == [][C29_RejectedWritesNothing /\ C29_FailedInsertUnlinks]_vars

\* C29: after every completed upload request a stored file exists only if
\* its MediaAsset row was committed.
C29_NoOrphanedFile ==
    upload.pc = "idle" => \A p \in DOMAIN media.files : HasRow(p)

(***************************************************************************)
(* The Agent Brain's streamed reply: AgentBrain.generate_response,         *)
(* _retrieve_context and _generate_hypothetical_answer                     *)
(* (src/backend/memory/agent_brain.py, lines 140-337)                      *)
(***************************************************************************)

MaxAsks == 1
MaxLinesRead == 2

Questions == {"q1", "q2"}

\* What the HyDE call can do: answer, answer with an error status, fail to
\* connect, time out, or answer with a body that has no choices
HydeOutcomes == {"answer", "status", "connect", "timeout", "malformed"}

\* What the final call can do before the first line is read
OpenOutcomes == {"ok", "status", "connect", "connect_timeout"}

\* What reading one more line of the stream can give
LineOutcomes == {"token", "comment", "bad_json", "done", "closed",
                 "read_error", "read_timeout"}

Hypothetical(question) == <<"hypothetical", question>>

IdleBrain ==
    [pc |-> "idle", use_cloud |-> FALSE, question |-> "", hyde |-> "",
     search_text |-> <<>>, context |-> "", out |-> <<>>, failure |-> "",
     lines |-> 0, raised |-> FALSE, asks |-> 0]

InitBrain ==
    /\ ApiIdle
    /\ execLog = <<>>
    /\ SessIdle /\ GwIdle /\ TetherIdle /\ BeamIdle /\ MemIdle
    /\ RouterIdle /\ BridgeIdle
    /\ media = <<>>
    /\ cleanup = <<>>
    /\ cortex = <<>>
    /\ nightly = <<>>
    /\ upload = <<>>
    /\ brain = IdleBrain

brainOthers == <<coreVars, memVars, media, cleanup, cortex, nightly, upload>>

Endpoint(use_cloud) == IF use_cloud THEN "cloud" ELSE "local"

\* Lines 324-335: the token an exception of the final call is turned into
ErrorToken(failure, use_cloud) ==
    IF failure = "status"
    THEN <<"[Error: ", IF use_cloud THEN "Cloud" ELSE "Local",
           " server returned HTTP ", "500", "]">>
    ELSE IF failure = "connect"
    THEN <<"[Error: Cannot connect to ", Endpoint(use_cloud),
           " server at ", "target_url", "]">>
    ELSE <<"[Error: ", "str(e)", "]">>

\* Lines 286-297: routing; the context is retrieved only for the cloud
BrainAsk ==
    /\ brain.pc \in {"idle", "ended"}
    /\ brain.asks < MaxAsks
    /\ \E question \in Questions, use_cloud \in BOOLEAN, hyde_enabled \in BOOLEAN :
         brain' = [IdleBrain EXCEPT
                     !.asks = brain.asks + 1,
                     !.question = question,
                     !.use_cloud = use_cloud,
                     !.pc = IF ~use_cloud THEN "open"
                            ELSE IF hyde_enabled THEN "hyde" ELSE "recall",
                     !.search_text = IF use_cloud /\ ~hyde_enabled
                                     THEN <<question>> ELSE <<>>,
                     !.context = IF use_cloud THEN "" ELSE "local"]
    /\ UNCHANGED brainOthers

\* _generate_hypothetical_answer (lines 140-181): every failure returns the
\* question
BrainHyde ==
    /\ brain.pc = "hyde"
    /\ \E outcome \in HydeOutcomes :
         brain' = [brain EXCEPT
                     !.pc = "recall",
                     !.hyde = outcome,
                     !.search_text = IF outcome = "answer"
                                     THEN Hypothetical(brain.question)
                                     ELSE <<brain.question>>]
    /\ UNCHANGED brainOthers

\* _retrieve_context (lines 207-239): recall_memories finds rows, finds
\* none, or raises
BrainRecall ==
    /\ brain.pc = "recall"
    /\ \E found \in {"memories", "none", "raises"} :
         brain' = [brain EXCEPT
                     !.pc = "open",
                     !.context = IF found = "memories" THEN "memories"
                                 ELSE "no_memories"]
    /\ UNCHANGED brainOthers

Fail(failure) ==
    [brain EXCEPT !.pc = "ended", !.failure = failure,
                  !.out = Append(@, ErrorToken(failure, brain.use_cloud))]

\* Lines 306-318: the streaming POST and raise_for_status
BrainOpen ==
    /\ brain.pc = "open"
    /\ \E outcome \in OpenOutcomes :
         brain' = IF outcome = "ok" THEN [brain EXCEPT !.pc = "stream"]
                  ELSE Fail(outcome)
    /\ UNCHANGED brainOthers

\* Lines 319-336: one line of the stream
BrainLine ==
    /\ brain.pc = "stream"
    /\ \E outcome \in LineOutcomes :
         /\ outcome \in {"token", "comment", "bad_json"} => brain.lines < MaxLinesRead
         /\ brain' =
              IF outcome = "token"
              THEN [brain EXCEPT !.lines = @ + 1, !.out = Append(@, <<"token">>)]
              ELSE IF outcome \in {"comment", "bad_json"}
              THEN [brain EXCEPT !.lines = @ + 1]
              ELSE IF outcome \in {"done", "closed"}
              THEN [brain EXCEPT !.pc = "ended"]
              ELSE Fail(outcome)
    /\ UNCHANGED brainOthers

NextBrain ==
    \/ BrainAsk
    \/ BrainHyde
    \/ BrainRecall
    \/ BrainOpen
    \/ BrainLine

SpecBrain == InitBrain /\ [][NextBrain]_vars

NamesEndpoint(token) ==
    \E i \in DOMAIN token : token[i] \in {"Cloud", "Local", "cloud", "local"}

\* A failure ends the stream with exactly one more token, no exception
\* reaches the consumer, and a failed HyDE call searches with the question
C30_FailureStep ==
    (brain'.failure # "" /\ brain.failure = "") =>
       /\ brain'.pc = "ended"
       /\ Len(brain'.out) = Len(brain.out) + 1
       /\ SubSeq(brain'.out, 1, Len(brain.out)) = brain.out
       /\ Head(brain'.out[Len(brain'.out)]) \in
            {"[Error: ", "[Error: Cannot connect to "}

C30_HydeFallback ==
    /\ ~brain.raised
    /\ brain.hyde \notin {"", "answer"} => brain.search_text = <<brain.question>>

C30_Parts == [][C30_FailureStep]_vars /\ []C30_HydeFallback

\* C30: on a connection or HTTP-status failure at any point of the final
\* completion call, the one diagnostic token that ends the stream says
\* which endpoint (local or cloud) failed.
C30_DiagnosticNamesEndpoint ==
    brain.failure # "" => NamesEndpoint(brain.out[Len(brain.out)])

(***************************************************************************)
(* Complexity scorer: ComplexityScorer.score and _get_recommendation       *)
(* (src/backend/app/core/scorer.py, lines 32-148).  A factor is kept as a  *)
(* fraction num/den and the weights in hundredths, so the weighted sum is  *)
(* an integer number of 1/600000ths.                                       *)
(***************************************************************************)

CODE_KEYWORDS ==
    { <<"f","u","n","c","t","i","o","n">>,
      <<"c","l","a","s","s">>,
      <<"d","e","f"," ">>,
      <<"i","m","p","o","r","t"," ">>,
      <<"a","s","y","n","c"," ">>,
      <<"a","w","a","i","t"," ">>,
      <<"c","o","n","s","t"," ">>,
      <<"l","e","t"," ">>,
      <<"v","a","r"," ">>,
      <<"r","e","t","u","r","n"," ">>,
      <<"i","n","t","e","r","f","a","c","e"," ">>,
      <<"t","y","p","e"," ">>,
      <<"s","t","r","u","c","t"," ">>,
      <<"e","n","u","m"," ">>,
      <<"i","m","p","l"," ">>,
      <<"p","u","b"," ">>,
      <<"f","n"," ">>,
      <<":",":">>,
      <<"S","E","L","E","C","T"," ">>,
      <<"I","N","S","E","R","T"," ">>,
      <<"U","P","D","A","T","E"," ">>,
      <<"C","R","E","A","T","E"," ">>,
      <<"A","L","T","E","R"," ">>,
      <<"d","o","c","k","e","r">>,
      <<"k","u","b","e","r","n","e","t","e","s">>,
      <<"k","8","s">>,
      <<"t","e","r","r","a","f","o","r","m">>,
      <<"g","i","t"," ">>,
      <<"c","o","m","m","i","t">>,
      <<"m","e","r","g","e">>,
      <<"r","e","b","a","s","e">>,
      <<"d","e","b","u","g">>,
      <<"e","r","r","o","r">>,
      <<"e","x","c","e","p","t","i","o","n">>,
      <<"t","r","a","c","e","b","a","c","k">>,
      <<"r","e","f","a","c","t","o","r">>,
      <<"o","p","t","i","m","i","z","e">>,
      <<"b","e","n","c","h","m","a","r","k">> }

RESEARCH_MARKERS ==
    { <<"e","x","p","l","a","i","n">>,
      <<"a","n","a","l","y","z","e">>,
      <<"c","o","m","p","a","r","e">>,
      <<"c","o","n","t","r","a","s","t">>,
      <<"e","v","a","l","u","a","t","e">>,
      <<"r","e","s","e","a","r","c","h">>,
      <<"i","n","v","e","s","t","i","g","a","t","e">>,
      <<"s","u","m","m","a","r","i","z","e">>,
      <<"s","y","n","t","h","e","s","i","z","e">>,
      <<"w","h","a","t"," ","i","s">>,
      <<"h","o","w"," ","d","o","e","s">>,
      <<"w","h","y"," ","d","o","e","s">>,
      <<"w","h","e","n"," ","s","h","o","u","l","d">>,
      <<"p","r","o","s"," ","a","n","d"," ","c","o","n","s">>,
      <<"t","r","a","d","e","-","o","f","f","s">>,
      <<"t","r","a","d","e","o","f","f","s">>,
      <<"h","i","s","t","o","r","y"," ","o","f">>,
      <<"e","v","o","l","u","t","i","o","n"," ","o","f">>,
      <<"f","u","t","u","r","e"," ","o","f">>,
      <<"b","e","s","t"," ","p","r","a","c","t","i","c","e","s">>,
      <<"a","r","c","h","i","t","e","c","t","u","r","e">>,
      <<"d","e","s","i","g","n"," ","p","a","t","t","e","r","n">> }

CLAUDE_MARKERS ==
    { <<"w","r","i","t","e"," ","c","o","d","e">>,
      <<"i","m","p","l","e","m","e","n","t">>,
      <<"c","r","e","a","t","e"," ","a"," ","f","u","n","c","t","i","o","n">>,
      <<"b","u","i","l","d"," ","a">>,
      <<"d","e","v","e","l","o","p"," ","a">>,
      <<"f","u","l","l"," ","i","m","p","l","e","m","e","n","t","a","t","i","o","n">>,
      <<"c","o","m","p","l","e","t","e"," ","s","o","l","u","t","i","o","n">>,
      <<"p","r","o","d","u","c","t","i","o","n"," ","c","o","d","e">>,
      <<"u","n","i","t"," ","t","e","s","t">>,
      <<"i","n","t","e","g","r","a","t","i","o","n"," ","t","e","s","t">>,
      <<"a","p","i"," ","d","e","s","i","g","n">>,
      <<"s","y","s","t","e","m"," ","d","e","s","i","g","n">>,
      <<"c","o","d","e"," ","r","e","v","i","e","w">>,
      <<"s","e","c","u","r","i","t","y"," ","a","u","d","i","t">> }

QueryGreeting ==
    <<"H","i"," ","t","h","e","r","e">>

QueryUnitTest ==
    <<"I","m","p","l","e","m","e","n","t"," ","a"," ","U","n","i","t"," ",
      "T","e","s","t">>

QueryDebug ==
    <<"d","e","b","u","g"," ","t","h","e"," ","e","r","r","o","r"," ","i",
      "n"," ","t","h","i","s"," ","f","u","n","c","t","i","o","n"," ","c",
      "l","a","s","s">>

QueryCompare ==
    <<"E","x","p","l","a","i","n"," ","a","n","d"," ","c","o","m","p","a",
      "r","e",":"," ","w","h","a","t"," ","i","s"," ","d","o","c","k","e",
      "r",","," ","g","i","t"," ","m","e","r","g","e">>

QueryImplement ==
    <<"I","M","P","L","E","M","E","N","T"," ","i","t">>

QuerySelect ==
    <<"S","E","L","E","C","T"," ","x">>

ScoredQueries ==
    { QueryGreeting, QueryUnitTest, QueryDebug, QueryCompare, QueryImplement,
      QuerySelect }

\* len(rag_context.split()) as the router passes it
ContextTokens == {0, 900, 2000}

\* WEIGHTS, in hundredths
WEIGHTS ==
    [token_count |-> 30, code_keywords |-> 25, research_markers |-> 20,
     multimodal |-> 15, context_length |-> 10]

FactorNames == DOMAIN WEIGHTS

\* ComplexityScorer.__init__(threshold=0.4), in hundredths
threshold == 40

Least(a, b) == IF a < b THEN a ELSE b

\* sum(1 for kw in keywords if kw.lower() in query_lower)
Matches(keywords, query_lower) ==
    Cardinality({ kw \in keywords : Contains(query_lower, Lower(kw)) })

\* sum(factors[f] * weight), in 1/600000ths
Weighted(factors) ==
    LET term(f) == WEIGHTS[f] * factors[f].num * (6000 \div factors[f].den)
    IN  term("token_count") + term("code_keywords") + term("research_markers")
        + term("multimodal") + term("context_length")

\* factor > x/10
Above(factor, tenths) == factor.num * 10 > tenths * factor.den

\* A plausible slip: image and screen queries are sent to gemini first.
MultimodalFirst(query_lower, score, factors) ==
    IF Above(factors.multimodal, 0) THEN "gemini"
    ELSE IF Cardinality({ cm \in CLAUDE_MARKERS : Contains(query_lower, cm) }) >= 2
            \/ Above(factors.code_keywords, 6)
    THEN "claude"
    ELSE IF score < threshold * 6000 THEN "local"
    ELSE "gemini"

\* _get_recommendation (lines 126-148)
_get_recommendation(query_lower, score, factors) ==
    LET claude_matches ==
            Cardinality({ cm \in CLAUDE_MARKERS : Contains(query_lower, cm) })
    IN
    IF claude_matches >= 2 \/ Above(factors.code_keywords, 6) THEN "claude"
    ELSE IF Above(factors.multimodal, 0) THEN "gemini"
    ELSE IF score < threshold * 6000 THEN "local"
    ELSE "gemini"

\* round(score, 3), in thousandths
Round3(score) == (score + 300) \div 600

\* ComplexityScorer.score (lines 75-123)
score(query, has_image, has_screen, context_tokens) ==
    LET query_lower == Lower(query)
        token_count == Len(Split(query))
        factors ==
            [token_count |-> [num |-> Least(token_count, 500), den |-> 500],
             code_keywords |->
                 [num |-> Least(Matches(CODE_KEYWORDS, query_lower), 5), den |-> 5],
             research_markers |->
                 [num |-> Least(Matches(RESEARCH_MARKERS, query_lower), 3), den |-> 3],
             multimodal |->
                 [num |-> IF has_image \/ has_screen THEN 1 ELSE 0, den |-> 1],
             context_length |->
                 [num |-> Least(context_tokens, 2000), den |-> 2000]]
        sum == Weighted(factors)
    IN  [score |-> Round3(sum),
         factors |-> factors,
         recommendation |-> _get_recommendation(query_lower, sum, factors)]

NoScore == [score |-> 0, factors |-> <<>>, recommendation |-> ""]

InitScorer ==
    /\ execLog = <<>>
    /\ SessIdle /\ GwIdle /\ TetherIdle /\ BeamIdle /\ MemIdle
    /\ RouterIdle /\ BridgeIdle
    /\ media = <<>> /\ cleanup = <<>> /\ cortex = <<>>
    /\ nightly = <<>> /\ upload = <<>> /\ brain = <<>>
    /\ prompted = <<>> /\ chat = <<>>
    /\ \E query \in ScoredQueries, has_image \in BOOLEAN, has_screen \in BOOLEAN,
          context_tokens \in ContextTokens :
         scored = [query |-> query, has_image |-> has_image,
                   has_screen |-> has_screen, context_tokens |-> context_tokens,
                   calls |-> 0, result |-> NoScore, previous |-> NoScore]

\* scorer.score(query, has_image, has_screen, context_tokens), called twice
\* on the same inputs
ScoreQuery ==
    /\ scored.calls < 2
    /\ scored' = [scored EXCEPT
                    !.calls = @ + 1,
                    !.previous = scored.result,
                    !.result = score(scored.query, scored.has_image,
                                     scored.has_screen, scored.context_tokens)]
    /\ UNCHANGED <<nonApiVars, prompted, chat>>

NextScorer == ScoreQuery

SpecScorer == InitScorer /\ [][NextScorer]_vars

\* The number of heavy-coding phrases of the query, case ignored
HeavyCoding(query) ==
    Cardinality({ cm \in CLAUDE_MARKERS : Contains(Lower(query), cm) })

Memo == <<"m","e","m","o">>

\* decision.context: None, "" or the retrieved text
Contexts == { None, <<>>, Memo }

\* `if decision.context:`
HasContext(context) == context # None /\ context # <<>>

\* f"Context:\n{decision.context}\n\nQuery:\n{query}"
FullQuery(query, context) ==
    <<"C","o","n","t","e","x","t",":","\n">> \o context
      \o <<"\n","\n","Q","u","e","r","y",":","\n">> \o query

\* The adapter execute calls for a target, "" when it calls none
AdapterOf(impl, target) ==
    IF impl = "app"
    THEN CASE target = "LOCAL" -> "_handle_local"
           [] target = "GEMINI" -> "_call_gemini"
           [] target = "CLAUDE" -> "_call_claude"
           [] target = "OLLAMA" -> "_call_ollama"
    ELSE CASE target = "LOCAL" -> "_handle_local"
           [] target = "OLLAMA" -> "_call_servitor"
           [] target = "GEMINI" -> "_call_omnissiah"
           [] target = "CLAUDE" -> ""

\* The first argument of that call: _handle_local is given query, every
\* other adapter full_query
HandedTo(target, query, context) ==
    LET full_query == IF HasContext(context) THEN FullQuery(query, context)
                      ELSE query
    IN  IF target = "LOCAL" THEN query ELSE full_query

NoDispatch == [pc |-> "idle", target |-> "", adapter |-> "", query |-> <<>>,
           context |-> None, handed |-> <<>>]

InitDispatch ==
    /\ JobsIdle
    /\ execLog = <<>>
    /\ SessIdle /\ GwIdle /\ TetherIdle /\ BeamIdle /\ MemIdle /\ BridgeIdle
    /\ settings \in [GEMINI_API_KEY : ApiKeys, ANTHROPIC_API_KEY : ApiKeys]
    /\ \E impl \in RouterImpls : router = NewRouter(impl, settings)
    /\ run = NoDispatch

\* execute(query, decision, image_data) up to the call of the adapter
ExecuteDispatch ==
    /\ \E query \in Queries, context \in Contexts, target \in RouteTarget :
         run' = [pc |-> "called", target |-> target,
                 adapter |-> AdapterOf(router.impl, target),
                 query |-> query, context |-> context,
                 handed |-> IF AdapterOf(router.impl, target) = "" THEN <<>>
                            ELSE HandedTo(target, query, context)]
    /\ UNCHANGED <<settings, router, routerOthers>>

NextDispatch == ExecuteDispatch

SpecDispatch == InitDispatch /\ [][NextDispatch]_vars

Prefixed(query, context) ==
    IF HasContext(context) THEN FullQuery(query, context) ELSE query

\* Every adapter but _handle_local is handed the prefixed form
C32_CloudPrefixed ==
    (run.pc = "called" /\ run.adapter \notin {"", "_handle_local"}) =>
       run.handed = Prefixed(run.query, run.context)

\* C32: for every route target, LOCAL included, the text handed to the
\* selected adapter is the 'Context: ... Query: ...' form whenever
\* decision.context is present, and the bare query only when it is not.
C32_ContextPrefixed ==
    (run.pc = "called" /\ run.adapter # "") =>
       run.handed = Prefixed(run.query, run.context)

(***************************************************************************)
(* Persona and prompt catalog: get_system_prompt and get_prompt_for_route  *)
(* (src/backend/app/core/prompts.py, lines 195-248;                        *)
(*  src/backend/_archive/app/core/prompts.py, lines 9-16 and 174-201)      *)
(***************************************************************************)

\* str.upper()
Upper(s) ==
    [i \in 1..Len(s) |->
        IF \E u \in DOMAIN UpperToLower : UpperToLower[u] = s[i]
        THEN CHOOSE u \in DOMAIN UpperToLower : UpperToLower[u] = s[i]
        ELSE s[i]]

\* class Persona (app lines 9-13)
PersonaValues ==
    { <<"S","P","A","R","K">>,
      <<"V","O","R","T","E","X">>,
      <<"C","O","R","E">> }

\* class Persona (archive lines 9-16)
PersonaValuesArchive ==
    { <<"S","P","A","R","K">>,
      <<"V","O","R","T","E","X">>,
      <<"C","O","R","E">>,
      <<"H","A","D","R","O","N">>,
      <<"S","E","R","V","I","T","O","R">>,
      <<"O","M","N","I","S","S","I","A","H">> }

\* The persona names a caller may pass
PersonaNames ==
    { <<"s","p","a","r","k">>,
      <<"S","p","a","r","k">>,
      <<"S","P","A","R","K">>,
      <<"v","o","r","t","e","x">>,
      <<"V","O","R","T","E","X">>,
      <<"c","o","r","e">>,
      <<"C","o","r","e">>,
      <<"h","a","d","r","o","n">>,
      <<"H","A","D","R","O","N">>,
      <<"s","e","r","v","i","t","o","r">>,
      <<"o","m","n","i","s","s","i","a","h">>,
      <<"o","v","e","r","s","e","e","r">>,
      <<"V","o","r","t","e","x">>,
      <<"S","e","r","v","i","t","o","r">>,
      <<"O","M","N","I","S","S","I","A","H">>,
      <<>>,
      <<" ","s","p","a","r","k">> }

\* The route tags a caller may pass
RouteNames ==
    { <<"l","o","c","a","l">>,
      <<"L","O","C","A","L">>,
      <<"g","e","m","i","n","i">>,
      <<"G","e","m","i","n","i">>,
      <<"c","l","a","u","d","e">>,
      <<"o","l","l","a","m","a">>,
      <<"O","L","L","A","M","A">>,
      <<"b","a","n","a","n","a">>,
      <<>> }

NameSpark == <<"S","P","A","R","K">>
NameVortex == <<"V","O","R","T","E","X">>
NameCore == <<"C","O","R","E">>
NameHadron == <<"H","A","D","R","O","N">>
NameServitor == <<"S","E","R","V","I","T","O","R">>
NameOmnissiah == <<"O","M","N","I","S","S","I","A","H">>
NameLocal == <<"L","O","C","A","L">>
NameGemini == <<"G","E","M","I","N","I">>
NameClaude == <<"C","L","A","U","D","E">>
NameOllama == <<"O","L","L","A","M","A">>

\* Persona(value): the member, or ValueError for a value that is none
IsPersona(impl, value) ==
    value \in (IF impl = "app" THEN PersonaValues ELSE PersonaValuesArchive)

\* persona = Persona(persona.upper()); a Persona member is a str too and
\* upper() gives its value.  <<"ValueError">> stands for the exception.
PersonaOf(impl, persona) ==
    IF IsPersona(impl, Upper(persona)) THEN Upper(persona)
    ELSE <<"ValueError">>

\* get_system_prompt (app lines 195-221, archive lines 174-188)
get_system_prompt(impl, persona, enable_cot) ==
    LET member == PersonaOf(impl, persona) IN
    IF member = <<"ValueError">> THEN "ValueError"
    ELSE IF impl = "app"
    THEN IF member = NameSpark THEN "SPARK_CONFIG"
         ELSE IF member = NameVortex THEN "VORTEX_CONFIG"
         ELSE IF member = NameCore
         THEN (IF enable_cot THEN "CORE_CONFIG_COT" ELSE "CORE_CONFIG")
         ELSE "ValueError"
    ELSE IF member = NameSpark THEN "HADRON_CONFIG"
         ELSE IF member = NameVortex THEN "SERVITOR_CONFIG"
         ELSE IF member = NameCore THEN "OMNISSIAH_CONFIG"
         ELSE "HADRON_CONFIG"

\* get_prompt_for_route (app lines 224-248, archive lines 190-201)
get_prompt_for_route(impl, route_tag, enable_cot) ==
    LET route == Upper(route_tag) IN
    IF impl = "app"
    THEN IF route = NameLocal THEN "SPARK_CONFIG"
         ELSE IF route \in {NameGemini, NameClaude, NameOllama}
         THEN (IF enable_cot THEN "CORE_CONFIG_COT" ELSE "CORE_CONFIG")
         ELSE "SPARK_CONFIG"
    ELSE IF route = NameLocal THEN "HADRON_CONFIG"
         ELSE IF route = NameOllama THEN "SERVITOR_CONFIG"
         ELSE IF route = NameGemini THEN "OMNISSIAH_CONFIG"
         ELSE "HADRON_CONFIG"

Configs ==
    {"SPARK_CONFIG", "VORTEX_CONFIG", "CORE_CONFIG", "CORE_CONFIG_COT",
     "HADRON_CONFIG", "SERVITOR_CONFIG", "OMNISSIAH_CONFIG"}

DefaultConfig(impl) == IF impl = "app" THEN "SPARK_CONFIG" ELSE "HADRON_CONFIG"

InitPrompts ==
    /\ execLog = <<>>
    /\ SessIdle /\ GwIdle /\ TetherIdle /\ BeamIdle /\ MemIdle
    /\ RouterIdle /\ BridgeIdle
    /\ media = <<>> /\ cleanup = <<>> /\ cortex = <<>>
    /\ nightly = <<>> /\ upload = <<>> /\ brain = <<>>
    /\ scored = <<>> /\ chat = <<>>
    /\ \E impl \in RouterImpls :
         prompted = [impl |-> impl, call |-> "", arg |-> <<>>,
                     enable_cot |-> FALSE, result |-> ""]

LookupPersona ==
    /\ \E persona \in PersonaNames, enable_cot \in BOOLEAN :
         prompted' = [prompted EXCEPT
                        !.call = "get_system_prompt", !.arg = persona,
                        !.enable_cot = enable_cot,
                        !.result = get_system_prompt(prompted.impl, persona,
                                                     enable_cot)]
    /\ UNCHANGED <<nonApiVars, scored, chat>>

LookupRoute ==
    /\ \E route \in RouteNames, enable_cot \in BOOLEAN :
         prompted' = [prompted EXCEPT
                        !.call = "get_prompt_for_route", !.arg = route,
                        !.enable_cot = enable_cot,
                        !.result = get_prompt_for_route(prompted.impl, route,
                                                        enable_cot)]
    /\ UNCHANGED <<nonApiVars, scored, chat>>

NextPrompts ==
    \/ LookupPersona
    \/ LookupRoute

SpecPrompts == InitPrompts /\ [][NextPrompts]_vars

KnownRoutes(impl) ==
    IF impl = "app" THEN {NameLocal, NameGemini, NameClaude, NameOllama}
    ELSE {NameLocal, NameGemini, NameOllama}

\* The route lookup is total, an unknown tag giving the default persona
C33_RouteLookupTotal ==
    prompted.call = "get_prompt_for_route" =>
      /\ prompted.result \in Configs
      /\ Upper(prompted.arg) \notin KnownRoutes(prompted.impl) =>
           prompted.result = DefaultConfig(prompted.impl)

\* C33: every lookup returns a configuration; an unknown persona name or
\* route tag resolves to the default persona and raises no error.
C33_LookupTotal ==
    prompted.call # "" => prompted.result \in Configs

(***************************************************************************)
(* POST /chat: chat (src/backend/app/main.py, lines 232-304;               *)
(* src/backend/_archive/app/main.py, lines 112-189)                        *)
(***************************************************************************)

\* What the POST to the local server's /api/chat can do
ChatOutcomes ==
    {"200_text", "200_no_message", "200_null_content", "200_not_json",
     "non_200", "timeout", "connect_error"}

NoChatResponse ==
    [response |-> "", persona |-> "", routing |-> "", model_used |-> "",
     complexity_score |-> ""]

\* decision.complexity: the scorer's ComplexityScore object in the app's
\* router (router.py line 112), the governor's float in the archived one
\* (archive router.py line 90)
ComplexityOf(impl) == IF impl = "app" THEN "ComplexityScore" ELSE "float"

\* ChatResponse(...): pydantic refuses a response that is no str and a
\* complexity_score that is no number
Validates(r) == r.response # "None" /\ r.complexity_score = "float"

CommFailure(detail, complexity_score) ==
    [response |-> "[COMM-FAILURE] " \o detail, persona |-> "ERROR",
     routing |-> "NONE", model_used |-> "none",
     complexity_score |-> complexity_score]

\* The try block and its except clause (app lines 262-304)
ChatReply(outcome, decision_score) ==
    LET ai_text == IF outcome = "200_text" THEN "text"
                   ELSE IF outcome = "200_no_message" THEN "Err: Empty buffer."
                   ELSE "None"
        built ==
            IF outcome \in {"200_text", "200_no_message", "200_null_content"}
            THEN [response |-> ai_text, persona |-> "HADRON",
                  routing |-> "LOCAL", model_used |-> "model",
                  complexity_score |-> decision_score]
            ELSE CommFailure("Ollama returned 500", decision_score)
    IN  IF outcome \in {"200_not_json", "timeout", "connect_error"}
        THEN CommFailure("str(e)", "float")
        ELSE IF Validates(built) THEN built
        ELSE CommFailure("str(e)", "float")

InitChat ==
    /\ execLog = <<>>
    /\ SessIdle /\ GwIdle /\ TetherIdle /\ BeamIdle /\ MemIdle
    /\ RouterIdle /\ BridgeIdle
    /\ media = <<>> /\ cleanup = <<>> /\ cortex = <<>>
    /\ nightly = <<>> /\ upload = <<>> /\ brain = <<>>
    /\ scored = <<>> /\ prompted = <<>>
    /\ \E impl \in RouterImpls :
         chat = [impl |-> impl, pc |-> "idle", prompt |-> <<>>,
                 image |-> FALSE, screen |-> FALSE, decision_score |-> "",
                 upstream |-> "", raised |-> "", reply |-> NoChatResponse]

\* Lines 238-260: route(), then get_system_prompt(Persona.HADRON); the
\* attribute access raises AttributeError where Persona has no such member
ChatBegin ==
    /\ chat.pc \in {"idle", "responded", "raised"}
    /\ \E prompt \in Queries, image \in BOOLEAN, screen \in BOOLEAN :
         LET hadron == IsPersona(chat.impl, NameHadron) IN
         chat' = [chat EXCEPT
                    !.prompt = prompt, !.image = image, !.screen = screen,
                    !.decision_score = ComplexityOf(chat.impl),
                    !.upstream = "", !.reply = NoChatResponse,
                    !.raised = IF hadron THEN "" ELSE "AttributeError",
                    !.pc = IF hadron
                              /\ get_system_prompt(chat.impl, NameHadron, FALSE)
                                   # "ValueError"
                           THEN "upstream" ELSE "raised"]
    /\ UNCHANGED <<nonApiVars, scored, prompted>>

\* Lines 262-304: the request to the local server and the reply
ChatUpstream ==
    /\ chat.pc = "upstream"
    /\ \E outcome \in ChatOutcomes :
         chat' = [chat EXCEPT
                    !.pc = "responded", !.upstream = outcome,
                    !.reply = ChatReply(outcome, chat.decision_score)]
    /\ UNCHANGED <<nonApiVars, scored, prompted>>

NextChat ==
    \/ ChatBegin
    \/ ChatUpstream

SpecChat == InitChat /\ [][NextChat]_vars

\* Once the upstream call is made, every outcome is answered with a
\* well-formed body, a failure as [COMM-FAILURE] with persona ERROR
C34_UpstreamFailureReported ==
    chat.pc = "responded" =>
      /\ Validates(chat.reply)
      /\ chat.upstream \notin {"200_text", "200_no_message"} =>
           /\ chat.reply.persona = "ERROR"
           /\ chat.reply.routing = "NONE"

\* C34: POST /chat never fails hard: no request ends in an error raised by
\* the handler.
C34_NeverRaises == chat.pc # "raised"

(***************************************************************************)
(* The host bridge's one session and its connections                       *)
(* (src/backend/neurobeam/host-bridge.py, handle_client, lines 321-381)    *)
(***************************************************************************)

\* The connection has completed a handshake and is still open
Handshaken(c) ==
    /\ clients[c].st \in {"open", "ollama"}
    /\ \E j \in DOMAIN clients[c].log : clients[c].log[j].ev = "hs_ok"

\* A step of some other connection: c's own handler does nothing in it
OthersStep(c) == clients'[c] = clients[c]

C35_OtherStep ==
    \A c \in BeamConns :
       (Handshaken(c) /\ bridge.session.authenticated /\ OthersStep(c)) =>
          bridge'.session.authenticated

\* C35: a connection that has completed its handshake stays authenticated
\* until it disconnects itself: no connect, failed handshake or disconnect
\* of another connection clears the authenticated state it is served under.
C35_StaysAuthenticated == [][C35_OtherStep]_vars

(***************************************************************************)
(* The age of the host bridge's session                                    *)
(* (src/backend/neurobeam/host-bridge.py: SESSION_TIMEOUT, line 35;        *)
(*  BeamSession, lines 111-124; handle_client, lines 321-381).  `now` is   *)
(* datetime.now() in seconds.                                              *)
(***************************************************************************)

SESSION_TIMEOUT == 3600

BridgeTimes == {0, 1800, 3600, 3601, 7200}

\* BeamSession.is_expired (lines 121-124); no statement of the bridge calls it
is_expired(session, t) == t - session.created_at > SESSION_TIMEOUT

\* Time passes.
BridgeTick ==
    /\ \E t \in BridgeTimes : t > now /\ now' = t
    /\ UNCHANGED <<bridge, clients, beamLog, execVars, sessVars, gwVars, wsVars,
                   tetherVars, memVars, routerVars, jobVars>>

NextBridgeClock ==
    \/ BridgeConnect(1)
    \/ BridgeReceive(1)
    \/ BridgeOllamaReturned(1)
    \/ BridgeDisconnect(1)
    \/ BridgeTick

SpecBridgeClock == InitBridge /\ [][NextBridgeClock]_vars

\* The step in which handle_client decrypted a message of connection c and
\* served it or passed it on to Ollama
DecryptedStep(c) ==
    /\ clients'[c].rx = clients[c].rx + 1
    /\ \/ clients'[c].st = "ollama"
       \/ /\ Len(clients'[c].log) = Len(clients[c].log) + 1
          /\ clients'[c].log[Len(clients'[c].log)].ev = "served"

\* C36: once more than 3600 seconds have passed since the session was
\* created, the bridge decrypts and serves no further message on it.
C36_ExpiredNotServed ==
    [][\A c \in BeamConns : DecryptedStep(c) => ~is_expired(bridge.session, now)]_vars

----------------------------------------------------------------------------
\* The order of frames on one connection (src/backend/app/main.py 351-461):
\* the receive loop awaits the whole `async for chunk in ai_router.execute`
\* of a request before it awaits receive_text again.

\* The stream ids a request may carry
StreamIdsSeen == { m.streamId : m \in RequestMsgs }

\* The chunks an adapter yields for a routed request, in order
ProducedChunks == <<Chunk("tok", FALSE), Chunk("", TRUE)>>

\* The positions of the log at which a request was routed
RoutedAt(log) == { i \in 1..Len(log) : log[i].ev = "route" }

\* The frames sent for the request routed at position i: the "tx" events
\* that follow it up to the next event that is no "tx"
FramesOf(log, i) ==
    LET stops == { j \in (i+1)..(Len(log)+1) :
                     j = Len(log) + 1 \/ log[j].ev # "tx" }
        stop == CHOOSE j \in stops : \A k \in stops : j <= k
    IN  SubSeq(log, i + 1, stop - 1)

\* The frame a client expects for a chunk of the request with stream id sid:
\* a token frame for a chunk that is not the last, a complete frame for the
\* last, each under the request's own stream id
FrameFor(chunk, sid) ==
    IF chunk.done
    THEN [kind |-> "dict", type |-> "complete", content |-> chunk.content,
          streamId |-> sid]
    ELSE [kind |-> "dict", type |-> "token", content |-> chunk.content,
          streamId |-> sid]

\* The frames are the chunks produced, in order, under one stream id
InProducedOrder(frames, sid) ==
    /\ Len(frames) <= Len(ProducedChunks)
    /\ \A k \in 1..Len(frames) :
         ClientOpens(frames[k].env, FrameFor(ProducedChunks[k], sid))

\* One step of connection c, as the claim reads it
C37_StreamStep(c) ==
    LET w == ws[c]
        w2 == ws'[c]
        n == Len(w.log)
    IN
    \* while frames of a request are outstanding no frame is received
    /\ w.st = "stream" => w2.rx = w.rx
    \* a frame sent then is the next chunk under the request's stream id
    /\ w.st = "stream" /\ Len(w2.log) > n /\ w2.log[n + 1].ev = "tx" =>
         /\ ClientOpens(w2.log[n + 1].env, FrameFor(Head(w.pending), w.streamId))
         /\ w2.pending = Tail(w.pending)
         /\ w2.st = "stream" => w2.streamId = w.streamId
    \* a request is routed only when no frame of an earlier one is left
    /\ Len(w2.log) > n /\ w2.log[n + 1].ev = "route" =>
         w.st = "open" /\ w.pending = <<>>

\* In every log the frames after a routed request are that request's
\* chunks in order, all of one stream id, before anything else happens
C37_LogInOrder ==
    \A c \in Conns :
        \A i \in RoutedAt(ws[c].log) :
            \E sid \in StreamIdsSeen :
                InProducedOrder(FramesOf(ws[c].log, i), sid)

\* C37: on one connection requests are served one at a time and frames go
\* out in the order the adapter produced the chunks: all frames of a request
\* are sent before any frame of a later one, so frames of different stream
\* ids never interleave.
C37_FramesInOrder ==
    []C37_LogInOrder /\ [][\A c \in Conns : C37_StreamStep(c)]_vars

\* Two requests with different stream ids were served on one connection,
\* each with its token frame and its complete frame.
C37_Witness ==
    \E c \in Conns :
        \E i, j \in RoutedAt(ws[c].log) :
            /\ i < j
            /\ Len(FramesOf(ws[c].log, i)) = 2
            /\ Len(FramesOf(ws[c].log, j)) = 2
            /\ InProducedOrder(FramesOf(ws[c].log, i), "s1")
            /\ InProducedOrder(FramesOf(ws[c].log, j), "s2")

----------------------------------------------------------------------------
\* The worker's progress through a backlog (run_loop, lines 377-389, over
\* _get_unprocessed_assets, lines 259-273): more rows wait than one query
\* returns, and what becomes of a row is settled by the row and its file.

BacklogSize == batch_size + 1

\* The rows of a backlog: an image the captioner describes, a row whose file
\* is gone, a row of a type the worker does not know, and an image on which
\* the captioner raises every time
BacklogKinds ==
    { [file_hash |-> "h1", file |-> "h1", media_type |-> "image"],
      [file_hash |-> "h2", file |-> "gone", media_type |-> "audio"],
      [file_hash |-> "h2", file |-> "h2", media_type |-> "video"],
      [file_hash |-> "h3", file |-> "corrupt", media_type |-> "image"] }

\* The file of the row exists and processing it succeeds
Processable(asset, files) ==
    /\ asset.filepath \in DOMAIN files
    /\ asset.media_type \in {"image", "audio"}
    /\ files[asset.filepath] # "corrupt"

\* The kinds of rows the worker can never describe
Unprocessable ==
    { k \in BacklogKinds : k.file = "gone" \/ k.file = "corrupt"
                             \/ k.media_type \notin {"image", "audio"} }

Describable == CHOOSE k \in BacklogKinds : k \notin Unprocessable

\* Backlogs of describable rows behind up to batch_size rows of one
\* unprocessable kind, uploaded first
InitBacklog ==
    /\ ApiIdle
    /\ execLog = <<>>
    /\ SessIdle /\ GwIdle /\ TetherIdle /\ BeamIdle
    /\ RouterIdle /\ BridgeIdle
    /\ store = EmptyStore
    /\ savers = [t \in Savers |-> IdleSaver]
    /\ night = IdleNight
    /\ recall = IdleRecall
    /\ returned = NoResult
    /\ \E bad \in Unprocessable, n \in 0..batch_size :
         LET kinds == [i \in 1..BacklogSize |->
                         IF i <= n THEN bad ELSE Describable]
         IN  media = MediaOf(kinds, [i \in 1..BacklogSize |-> i],
                             [i \in 1..BacklogSize |-> kinds[i].media_type])
    /\ cleanup = <<>>
    /\ cortex = IdleCortex
    /\ nightly = <<>>
    /\ upload = <<>>
    /\ brain = <<>>

\* What the claim supposes of a step: the query returns, the captioner
\* succeeds on exactly the rows it can process, and the description commits
AsSupposed ==
    /\ cortex.pc = "poll" =>
         (cortex'.pc = "sleep" <=> _get_unprocessed_assets(media.rows) = <<>>)
    /\ AtAsset =>
         (cortex'.pc = "update" <=> Processable(CurrentAsset, media.files))
    /\ cortex.pc = "update" => cortex'.updated

\* Repeated polling with no shutdown
NextBacklog == CortexStep /\ AsSupposed

SpecBacklog == InitBacklog /\ [][NextBacklog]_vars /\ WF_vars(NextBacklog)

\* C38: under repeated polling with no shutdown, every asset with a null
\* description whose file exists and whose processing succeeds is eventually
\* given a description, however many other undescribed assets can never be
\* processed.
C38_ProcessableDescribed ==
    \A i \in 1..BacklogSize :
        (i \in DOMAIN media.rows /\ Processable(media.rows[i], media.files))
            ~> (media.rows[i].description # None)

\* The rows no pass can describe
Stuck == { i \in DOMAIN media.rows : ~Processable(media.rows[i], media.files) }

\* What does hold: only rows that can be processed are ever described, and
\* with fewer stuck rows than one query returns every other row is described
C38_OnlyProcessableDescribed ==
    \A i \in DOMAIN media.rows :
        media.rows[i].description # None => Processable(media.rows[i], media.files)

C38_SmallBacklogDescribed ==
    \A i \in 1..BacklogSize :
        (/\ i \in DOMAIN media.rows
         /\ Processable(media.rows[i], media.files)
         /\ Cardinality(Stuck) < batch_size)
            ~> (media.rows[i].description # None)

----------------------------------------------------------------------------
\* The pairs the worker derives from an asset (run_once, lines 349-364):
\* save_interaction is called after _update_asset_description whether or
\* not the description was committed.

MediaTypes == {"image", "audio", "video"}

\* The SemanticMemory rows, each with its Message, derived from assets of
\* one media type: save_interaction tags them media_<type>
DerivedPairs(media_type) ==
    { x \in DOMAIN store.mems :
        /\ store.mems[x].tag = <<"media_">> \o <<media_type>>
        /\ store.mems[x].message_id \in DOMAIN store.msgs }

AssetsOfType(media_type) ==
    { a \in DOMAIN media.rows : media.rows[a].media_type = media_type }

\* C39: each asset produces at most one derived Message+SemanticMemory pair
\* over any number of passes, passes in which the description update or the
\* vectorization fails included: there are never more pairs of a media type
\* than assets of that type.
C39_OnePairPerAsset ==
    \A t \in MediaTypes :
        Cardinality(DerivedPairs(t)) <= Cardinality(AssetsOfType(t))

\* What does hold: an asset whose description is stored is in no later batch,
\* so it is vectorized in no later pass
C39_DescribedNotRevisited ==
    cortex.pc \in {"asset", "update", "vectorize"} /\ cortex.i <= Len(cortex.batch) =>
        (CurrentAsset.description # None => cortex.pc = "vectorize" /\ cortex.updated)

=============================================================================
